---- MODULE Spec2Model ----
(***************************************************************************)
(* Job lifecycle and concurrency core of ai-suite:                         *)
(*   backend/app/core/job_store.py   Job, JobStore                         *)
(*   backend/app/core/job_runner.py  JobRunner                             *)
(* Job records are heap objects shared by reference between the store, the *)
(* runner's worker threads and the callers.  Each statement of             *)
(* JobRunner._execute_job and JobRunner.cancel that touches shared state   *)
(* is one step; each Job / JobStore method call is one step.               *)
(***************************************************************************)
EXTENDS Integers, Sequences, FiniteSets, TLC

\* ---------------------------------------------------------------- bounds
MaxJobs == 1          \* records JobStore.create may allocate
max_concurrent == 1   \* JobSettings.max_concurrent of the modelled runner
MaxTime == 1          \* clock values 0..MaxTime (hours)
MaxBodySteps == 1     \* on_log / set_progress calls the bodies make in total
MaxCalls == 1         \* client calls of cancel, shutdown, delete, cleanup_old
MaxPlanSteps == 2
MaxRegs == 3     \* steps in a plan the LLM returns

\* ------------------------------------------------------------ value sets
PENDING == "pending"
RUNNING == "running"
COMPLETE == "complete"
FAILED == "failed"
CANCELLED == "cancelled"
JobStatus == {PENDING, RUNNING, COMPLETE, FAILED, CANCELLED}
Terminal == {COMPLETE, FAILED, CANCELLED}

None == "None"        \* Optional[...] = None for str / dict fields
NoTime == -1          \* Optional[datetime] = None

\* str(e) of an exception: its single argument, "" when it has none
str(e) == IF e.args = << >> THEN "" ELSE e.args[1]

Min(a, b) == IF a < b THEN a ELSE b
Max(a, b) == IF a > b THEN a ELSE b

PoolJobs == max_concurrent + 1     \* N + 1 jobs for a pool of N threads
JobIds == 1..Max(MaxJobs, PoolJobs)
\* a pool that starts one thread more than configured
EventIds == 1..(Max(MaxJobs, PoolJobs) + MaxCalls)   \* one Event per submit call
WorkersUnbounded == 1..(max_concurrent + 1)
Workers == 1..max_concurrent
MiniApps == {"app"}
Results == {"res"}                \* result maps a body returns
\* exceptions a body raises (subclasses of Exception other than InterruptedError)
Exceptions == { [cls |-> "ValueError", args |-> <<"boom">>] }
LogMsgs == {"step"}               \* messages a body passes to on_log
RunMsgs == {"Starting Market Scraper"}   \* message of workflow.py line 66
\* arguments of set_progress: progress in tenths (-0.5, 0.5, 1.5) and step
ProgressInputs == { <<-5, None>>, <<5, "s1">>, <<15, "s1">> }
AgeInputs == {0, 1}               \* max_age_hours

\* ------------------------------------------------------------------ Job
\* Job records; progress is counted in tenths; a log line is represented by
\* its message (the "[HH:MM:SS] " prefix is left out), updated_at is left out.
NewJob(miniapp_id, t) ==
    [ miniapp_id   |-> miniapp_id,
      status       |-> PENDING,
      progress     |-> 0,
      current_step |-> None,
      logs         |-> << >>,
      result       |-> None,
      error        |-> None,
      created_at   |-> t,
      completed_at |-> NoTime ]

\* Job.add_log that puts the new line in front of the others
add_logPrepend(j, message) ==
    [j EXCEPT !.logs = <<message>> \o @]

add_log(j, message) ==
    [j EXCEPT !.logs = Append(@, message)]

\* Job.set_progress that stores the supplied value as it is
set_progressUnclamped(j, progress, step) ==
    [j EXCEPT !.progress = progress,
              !.current_step = IF step \notin {None, ""} THEN step ELSE @]

set_progress(j, progress, step) ==
    [j EXCEPT !.progress = Min(10, Max(0, progress)),
              !.current_step = IF step \notin {None, ""} THEN step ELSE @]

\* Job.complete, Job.fail and Job.cancel as calls that no other thread
\* looks into: the job after the method's last statement
complete(j, result, t) ==
    [j EXCEPT !.status = COMPLETE,
              !.result = result,
              !.progress = 10,
              !.current_step = None,
              !.completed_at = t]

fail(j, error, t) ==
    add_log([j EXCEPT !.status = FAILED,
                      !.error = error,
                      !.current_step = None,
                      !.completed_at = t],
            "ERROR: " \o error)

cancel(j, t) ==
    add_log([j EXCEPT !.status = CANCELLED,
                      !.current_step = None,
                      !.completed_at = t],
            "Job cancelled by user")

\* -------------------------------------------------------------- Planner
\* ToolRegistry: the registered tools in registration order; a tool is
\* represented by its name
\* (the built-in tools of _register_builtin_tools, lines 42-45)
_tools == << "llm_generate", "scrape_url", "image_generate", "video_generate" >>
list_tools == _tools
InList(x, list) == \E i \in 1..Len(list) : list[i] = x
get_tool(name) == IF InList(name, _tools) THEN name ELSE None

\* tool names an LLM response may carry: the registered ones and one more
ToolNames == { "llm_generate", "scrape_url", "fake_tool" }

\* allowed_tools: Optional[List[str]]; none marks the value None
NoList == [none |-> TRUE, items |-> << >>]
List(items) == [none |-> FALSE, items |-> items]
Whitelists == { NoList, List(<< >>), List(<< "scrape_url" >>),
                List(<< "llm_generate", "fake_tool" >>) }
\* truth value of "allowed_tools" in a Python condition
truthy(allowed_tools) == ~allowed_tools.none /\ allowed_tools.items # << >>

\* JSON values: a string, a number written v, or an array / an object
\* holding the string v
Str(v) == [type |-> "str", v |-> v]
Number(v) == [type |-> "int", v |-> v]
Array(v) == [type |-> "list", v |-> v]
Object(v) == [type |-> "dict", v |-> v]

\* step inputs: a dict, that is its entries and its keys in the order of
\* their insertion (the order in which dict.items() walks them), or a value
\* that is not a dict (a list)
EmptyMap == [k \in {} |-> Str("")]
NotADict == [is_dict |-> FALSE, keys |-> << >>, items |-> EmptyMap]
Dict(keys, items) == [is_dict |-> TRUE, keys |-> keys, items |-> items]
InputValues == { Str("http://x"), Str("$page"), Str("$url") }
StepInputs == { NotADict, Dict(<< >>, EmptyMap) }
                  \cup { Dict(<< "url" >>, [k \in {"url"} |-> v])
                         : v \in InputValues }
\* input_schema["required"] of the registered tools (scrape.py line 29,
\* image_gen.py line 28, video_gen.py line 27; llm_tool.py has none)
required(tool_name) ==
    CASE tool_name = "scrape_url" -> {"url"}
      [] tool_name \in {"image_generate", "video_generate"} -> {"prompt"}
      [] OTHER -> {}
OutputVariables == { "", "page", "url" }
StepNumbers == { 1, 2 }

\* the steps of a payload {"steps": [...]} as PlanStep objects (lines 275-285)
PlanStep(step_number, tool_name, description, inputs, output_variable) ==
    [ step_number     |-> step_number,
      tool_name       |-> tool_name,
      description     |-> description,
      inputs          |-> inputs,
      output_variable |-> output_variable,
      status          |-> "pending",
      result          |-> None,
      error           |-> None ]

PlanSteps ==
    { PlanStep(n, t, "d", i, o) : n \in StepNumbers, t \in ToolNames,
                                  i \in StepInputs, o \in OutputVariables }

\* the five keys _generate_plan reads in an element of "steps"
StepKeys == { "step_number", "tool_name", "description", "inputs",
              "output_variable" }

\* elements of the "steps" array of an LLM response: objects with the five
\* keys, some with one more key, some without "description"
StepDatas ==
    { [ step_number |-> n, tool_name |-> t, description |-> d, inputs |-> i,
        output_variable |-> o ]
        : n \in StepNumbers, t \in {"scrape_url"}, d \in {"d", "fetch"},
          i \in {NotADict, Dict(<< "url" >>, [k \in {"url"} |-> Str("$url")])},
          o \in {"page"} }
    \cup { [ step_number |-> n, tool_name |-> "scrape_url",
             description |-> "d", inputs |-> Dict(<< >>, EmptyMap),
             output_variable |-> "", note |-> "x" ] : n \in StepNumbers }
    \cup { [ step_number |-> 1, tool_name |-> "scrape_url",
             inputs |-> Dict(<< >>, EmptyMap), output_variable |-> "page" ] }
Payloads == UNION { [1..n -> StepDatas] : n \in 0..MaxPlanSteps }

\* lines 275-285 with the list built back to front
_generate_planReversed(steps) ==
    [ i \in 1..Len(steps) |->
        LET step_data == steps[Len(steps) + 1 - i] IN
          PlanStep(step_data.step_number, step_data.tool_name,
                   step_data.description, step_data.inputs,
                   step_data.output_variable) ]

\* Planner._generate_plan from the parsed response on (lines 275-285):
\* plan.steps for the list under "steps"; reading a key an element does not
\* have raises KeyError
KeyErrorIn(steps) ==
    \E i \in 1..Len(steps) : ~(StepKeys \subseteq DOMAIN steps[i])
_generate_plan(steps) ==
    [ i \in 1..Len(steps) |->
        LET step_data == steps[i] IN
          PlanStep(step_data.step_number, step_data.tool_name,
                   step_data.description, step_data.inputs,
                   step_data.output_variable) ]

\* the caller's context argument
InitialContext == [ name \in {"url"} |-> Str("http://x") ]

NoError == [cls |-> "None", msg |-> "", step_number |-> 0]
ValueError(msg, step_number) ==
    [cls |-> "ValueError", msg |-> msg, step_number |-> step_number]

\* _validate_plan without the whitelist test
step_errorNoWhitelist(step, allowed_tools) ==
    IF get_tool(step.tool_name) = None
      THEN ValueError("not registered", step.step_number)
    ELSE IF ~step.inputs.is_dict
      THEN ValueError("inputs must be a dict", step.step_number)
    ELSE IF step.output_variable = ""
      THEN ValueError("output_variable is required", step.step_number)
    ELSE NoError

\* _validate_plan without the test of output_variable
step_errorNoOutputTest(step, allowed_tools) ==
    IF truthy(allowed_tools) /\ ~InList(step.tool_name, allowed_tools.items)
      THEN ValueError("not in allowed tools", step.step_number)
    ELSE IF get_tool(step.tool_name) = None
      THEN ValueError("not registered", step.step_number)
    ELSE IF ~step.inputs.is_dict
      THEN ValueError("inputs must be a dict", step.step_number)
    ELSE NoError

\* _validate_plan, lines 313-334: the tests made on one step, in their order
step_error(step, allowed_tools) ==
    IF truthy(allowed_tools) /\ ~InList(step.tool_name, allowed_tools.items)
      THEN ValueError("not in allowed tools", step.step_number)
    ELSE IF get_tool(step.tool_name) = None
      THEN ValueError("not registered", step.step_number)
    ELSE IF ~step.inputs.is_dict
      THEN ValueError("inputs must be a dict", step.step_number)
    ELSE IF step.output_variable = ""
      THEN ValueError("output_variable is required", step.step_number)
    ELSE NoError

\* the loop of _validate_plan from position i on: the first error ends it
RECURSIVE validate_from(_, _, _)
validate_from(steps, i, allowed_tools) ==
    IF i > Len(steps) THEN NoError
    ELSE LET e == step_error(steps[i], allowed_tools) IN
           IF e # NoError THEN e ELSE validate_from(steps, i + 1, allowed_tools)

\* Planner._validate_plan: the ValueError it raises, NoError when it returns
_validate_plan(steps, allowed_tools) ==
    IF steps = << >> THEN ValueError("Plan has no steps", 0)
    ELSE validate_from(steps, 1, allowed_tools)

\* Planner._get_tool_descriptions: the names put into the prompt
_get_tool_descriptions(allowed_tools) ==
    LET keep(tool_name) ==
            /\ ~(truthy(allowed_tools) /\ ~InList(tool_name, allowed_tools.items))
            /\ get_tool(tool_name) # None
    IN SelectSeq(list_tools, keep)

\* isinstance(value, str) and value.startswith("$"), and value[1:], for the
\* strings a step may carry
DollarStrings == { "$page", "$url", "$missing", "$" }
\* the test of line 355 without its isinstance(value, str)
startswith_dollarAnyType(value) == value.v \in DollarStrings
startswith_dollar(value) == value.type = "str" /\ value.v \in DollarStrings
var_name(value) ==
    CASE value.v = "$page" -> "page"
      [] value.v = "$url" -> "url"
      [] value.v = "$missing" -> "missing"
      [] OTHER -> ""

\* the loop of _resolve_inputs (lines 354-361) from the i-th entry of
\* inputs.items() on, in the dict's insertion order; resolved is the dict
\* filled so far; the first name not in the context ends the loop
RECURSIVE resolve_from(_, _, _, _)
resolve_from(inputs, context, i, resolved) ==
    IF i > Len(inputs.keys)
      THEN [error |-> None, keys |-> resolved.keys, items |-> resolved.items]
    ELSE LET key == inputs.keys[i]
             value == inputs.items[key]
             set(v) == Dict(Append(resolved.keys, key),
                            [k \in DOMAIN resolved.items \cup {key} |->
                                IF k = key THEN v ELSE resolved.items[k]])
         IN IF startswith_dollar(value)
              THEN IF var_name(value) \notin DOMAIN context
                     THEN [error |-> "Variable '" \o var_name(value)
                                        \o "' not found in context",
                           keys |-> resolved.keys, items |-> resolved.items]
                     ELSE resolve_from(inputs, context, i + 1,
                                       set(context[var_name(value)]))
              ELSE resolve_from(inputs, context, i + 1, set(value))

\* _resolve_inputs that hands the inputs on as they are
_resolve_inputsUnresolved(inputs, context) ==
    [error |-> None, keys |-> inputs.keys, items |-> inputs.items]

\* Planner._resolve_inputs(inputs, context): the resolved dict, or the
\* message of the ValueError it raises
_resolve_inputs(inputs, context) ==
    resolve_from(inputs, context, 1, Dict(<< >>, EmptyMap))

\* ToolResult.outputs of a successful call: one output map per tool
outputs(tool_name) == Object("<" \o tool_name \o ">")
\* base.py lines 14-28: what execute returns; KeyError: what it raises
ToolResult(success, error) ==
    [raised |-> None, success |-> success, error |-> error]
Raised(exception) == [raised |-> exception, success |-> FALSE, error |-> None]

\* ScrapeTool.execute (scrape.py lines 53-110); deps: httpx and bs4 can be
\* imported; net: how the request ends
scrape_execute(inputs, deps, net) ==
    IF ~deps
      THEN ToolResult(FALSE, "Scraping dependencies not installed")
    ELSE IF "url" \notin DOMAIN inputs
      THEN Raised("KeyError('url')")          \* line 72, outside the try
    ELSE IF inputs["url"].type # "str"
      THEN ToolResult(FALSE, "str(e)")        \* httpx rejects the URL
    ELSE CASE net = "http_error" -> ToolResult(FALSE, "HTTP error")
           [] net = "timeout" -> ToolResult(FALSE, "HTTP error")
           [] OTHER -> ToolResult(TRUE, None)

\* ImageGenerateTool.execute (image_gen.py lines 59-83) and
\* VideoGenerateTool.execute (video_gen.py lines 55-80): placeholders
placeholder_execute(inputs) ==
    IF "prompt" \notin DOMAIN inputs
      THEN Raised("KeyError('prompt')")       \* line 70 / line 66, no try
      ELSE ToolResult(TRUE, None)

execute(tool_name, inputs, deps, net) ==
    IF tool_name = "scrape_url" THEN scrape_execute(inputs, deps, net)
    ELSE placeholder_execute(inputs)

\* how a call of tool.execute ends
Outcomes == { "success", "failure", "raise" }

\* the step lists an LLM response may carry
Plans == UNION { [1..n -> PlanSteps] : n \in 0..MaxPlanSteps }

IdlePlanner ==
    [ pc            |-> "idle",
      allowed_tools |-> NoList,
      catalogue     |-> << >>,     \* tool names rendered into the prompt
      steps         |-> << >>,     \* plan.steps
      status        |-> "pending", \* plan.status
      context       |-> InitialContext,  \* plan.context
      caller        |-> InitialContext,  \* the dict the caller passed
      aliased       |-> FALSE,     \* plan.context is the caller's dict itself
      i             |-> 0,         \* position of the loop of line 175
      invoked       |-> << >>,     \* the calls of tool.execute made so far
      error         |-> NoError ]  \* the exception raised to the caller

\* no function is under test
NoCall == [op |-> "none", pc |-> "idle"]

\* the maps from a subset of the keys to the values
Maps(keys, values) == UNION { [d -> values] : d \in SUBSET keys }
\* the orders in which the keys of a map can have been inserted
Orders(items) ==
    { keys \in [1..Cardinality(DOMAIN items) -> DOMAIN items] :
          \A i, j \in DOMAIN keys : i # j => keys[i] # keys[j] }

\* the calls _resolve_inputs(inputs, context) under test: the inputs hold
\* literals, references, and arrays and objects that contain a reference,
\* under one or two keys inserted in either order; a context value may
\* itself look like a reference
ResolveValues == { Str("http://x"), Str("$page"), Str("$missing"), Str("$"),
                   Number("42"), Array("$page"), Object("$page") }
ContextValues == { Number("42"), Str("$url") }
ResolveCalls ==
    { [ op      |-> "_resolve_inputs",
        pc      |-> "called",
        args    |-> [inputs |-> inputs, context |-> context],
        inputs  |-> inputs,          \* the caller's inputs object
        context |-> context,         \* the caller's context object
        result  |-> Dict(<< >>, EmptyMap),
        error   |-> None ]
      : inputs \in UNION { { Dict(keys, items) : keys \in Orders(items) }
                            : items \in Maps({"url", "selector"},
                                             ResolveValues) },
        context \in Maps({"page", ""}, ContextValues) }

\* a tool instance: its name and which instance of that name it is; Absent
\* stands for the None that dict.get returns
Tool(name, id) == [name |-> name, id |-> id]
Absent == Tool(None, 0)

\* self._tools[tool.name] = tool on a dict kept as the list of its values in
\* insertion order: a new key goes to the end, a key already there keeps
\* its place and gets the new value
HasKey(tools, name) == \E i \in 1..Len(tools) : tools[i].name = name
registerKeepFirst(tools, tool) ==
    IF HasKey(tools, tool.name) THEN tools ELSE Append(tools, tool)
register(tools, tool) ==
    IF HasKey(tools, tool.name)
      THEN [ i \in 1..Len(tools) |->
               IF tools[i].name = tool.name THEN tool ELSE tools[i] ]
      ELSE Append(tools, tool)
\* self._tools.get(name)
get(tools, name) ==
    IF HasKey(tools, name)
      THEN tools[CHOOSE i \in 1..Len(tools) : tools[i].name = name]
      ELSE Absent
\* list(self._tools.keys())
keys(tools) == [ i \in 1..Len(tools) |-> tools[i].name ]

\* ToolRegistry.__init__: the built-in tools are registered (lines 42-45);
\* registered lists the register calls made since, the last one last
RECURSIVE register_all(_, _)
register_all(tools, names) ==
    IF names = << >> THEN tools
    ELSE register_all(register(tools, Tool(Head(names), 0)), Tail(names))
NewRegistry == [_tools |-> register_all(<< >>, _tools), registered |-> << >>]

\* the tools the callers register: two instances each of a built-in name
\* and of two new names
RegisteredTools ==
    { Tool(name, id) : name \in {"scrape_url", "search_web", "my_tool"},
                       id \in 1..2 }

\* no Job is being finalized
NoFinalization == [pc |-> 0]

\* Job.complete that leaves progress and the step label as they are
statementsKeepProgress(method) ==
    CASE method = "complete" -> << "status", "result", "completed_at" >>
      [] method = "fail" -> << "status", "error", "current_step",
                               "completed_at", "add_log" >>
      [] OTHER -> << "status", "current_step", "completed_at", "add_log" >>

\* Job.cancel without its log line
statementsSilentCancel(method) ==
    CASE method = "complete" -> << "status", "result", "progress",
                                   "current_step", "completed_at" >>
      [] method = "fail" -> << "status", "error", "current_step",
                               "completed_at", "add_log" >>
      [] OTHER -> << "status", "current_step", "completed_at" >>

\* Job.complete, Job.fail and Job.cancel statement by statement (job_store.py
\* lines 104-128; the writes of updated_at are left out as in NewJob): the
\* attribute each statement of the method assigns, add_log for its last call
statements(method) ==
    CASE method = "complete" -> << "status", "result", "progress",
                                   "current_step", "completed_at" >>
      [] method = "fail" -> << "status", "error", "current_step",
                               "completed_at", "add_log" >>
      [] OTHER -> << "status", "current_step", "completed_at", "add_log" >>

\* the job after the statement of the method that assigns the attribute
assign(j, method, attribute, arg, t) ==
    CASE attribute = "status" ->
             [j EXCEPT !.status = CASE method = "complete" -> COMPLETE
                                    [] method = "fail" -> FAILED
                                    [] OTHER -> CANCELLED]
      [] attribute = "result" -> [j EXCEPT !.result = arg]
      [] attribute = "error" -> [j EXCEPT !.error = arg]
      [] attribute = "progress" -> [j EXCEPT !.progress = 10]
      [] attribute = "current_step" -> [j EXCEPT !.current_step = None]
      [] attribute = "completed_at" -> [j EXCEPT !.completed_at = t]
      [] OTHER -> add_log(j, IF method = "fail" THEN "ERROR: " \o arg
                             ELSE "Job cancelled by user")

\* a running job on which _execute_job calls one of the three methods
\* (job_runner.py lines 109-120), and what a reader last got of it
Finalizations ==
    { [ pc     |-> 1,
        method |-> c[1],
        arg    |-> c[2],
        job    |-> job,
        seen   |-> job ]
      : c \in { <<"complete", "r1">>, <<"complete", "r2">>, <<"fail", "boom">>,
                <<"fail", "x">>, <<"cancel", None>> },
        job \in { add_log([NewJob("app", 0) EXCEPT !.status = RUNNING,
                                                   !.progress = p,
                                                   !.current_step = step],
                          "Starting workflow: app")
                  : p \in {0, 5}, step \in {None, "s1"} } }

\* ---------------------------------------------------------------- state
VARIABLES
    now,                    \* datetime.utcnow(), in hours
    jobs,                   \* heap of Job objects; the index is job_id
    _jobs,                  \* JobStore._jobs: job_id -> Job object
    _cancellation_events,   \* JobRunner._cancellation_events: job_id -> Event
    events,                 \* heap of threading.Event objects (is_set flags)
    queue,                  \* work queue of JobRunner._executor
    worker,                 \* the pool's threads: position in _execute_job
    executor_shutdown,      \* JobRunner._executor has been shut down
    sd,                     \* the thread calling JobRunner.shutdown
    canc,                   \* the thread calling JobRunner.cancel
    sub,                    \* the calls of JobRunner.submit under way
    cr,                     \* the calls of JobStore.create under way
    cl,                     \* the thread calling JobStore.cleanup_old
    app,                    \* per record: the mini app's run() that made it
    ret,                    \* outcome of the last cancel / cleanup_old call
    calls,                  \* number of API calls made (bounds the model)
    h,                      \* per job: what has happened to it so far
    pl,                     \* the call of Planner.execute: its plan and position
    fn,                     \* the call of a function under test and its outcome
    reg,                    \* a ToolRegistry and the calls made on it
    fin                     \* a Job being finalized, statement by statement

\* the job core's part of the state
jobVars == << now, jobs, _jobs, _cancellation_events, events, queue, worker,
              executor_shutdown, sd, canc, sub, cr, cl, app, ret, calls, h >>

vars == << now, jobs, _jobs, _cancellation_events, events, queue, worker,
           executor_shutdown, sd, canc, sub, cr, cl, app, ret, calls, h,
           pl, fn, reg, fin >>

\* the state outside the job core
outside == << pl, fn, reg, fin >>
\* the callers of create, cleanup_old and a mini app's run
clients == << cr, cl, app >>
\* the same and the callers of submit
others == << outside, clients, sub >>
\* the state outside the planner
notPlanner == << jobVars, fn, reg, fin >>

\* a caller of cancel: its position, its argument, the Job object that
\* job_store.get gave it (line 143), the status it read at line 148 and
\* the Event it looked up at line 154
IdleCaller == [pc |-> "idle", job_id |-> 0, job |-> 0, status |-> None, ev |-> 0]

\* the callers of submit: the calls that stand before line 76, each with
\* its job and the Event it made (line 72), and how the last call ended
IdleSubmitter == [flight |-> {}, val |-> "None"]

\* a caller of cleanup_old: its position, its argument and the cutoff it
\* computed (line 268)
IdleCleaner == [pc |-> "idle", max_age_hours |-> 0, cutoff |-> 0]

\* what a body hands back to _execute_job: the returned map or the raised
\* exception, held the way an exception is (class, arguments)
NoValue == [cls |-> "None", args |-> << >>]
Returned(result) == [cls |-> "dict", args |-> <<result>>]

\* a mini app's run() with the record it created: its position and the
\* Job object that job_store.get gave to _log
NoRun == [pc |-> "none", job |-> 0, val |-> NoValue, stmt |-> 0]

\* the iterator of shutdown's loop over _cancellation_events.values(): the
\* size of the dict when the iterator was made, the number of entries it
\* has still to give, the slot it has reached; wait is shutdown's argument;
\* outstanding keeps the Events of the table as shutdown found it
IdleShutdown ==
    [pc |-> "idle", wait |-> FALSE, size |-> 0, len |-> 0, pos |-> 0,
     ev |-> 0, err |-> "None", outstanding |-> << >>]

\* the argument of on_log between its test and its append
Message(message) == [cls |-> "str", args |-> <<message>>]

\* stmt: the statements of the Job method under way that have been executed
IdleWorker == [pc |-> "idle", job |-> 0, ev |-> 0, val |-> NoValue, stmt |-> 0]

NewHistory ==
    [ submits    |-> 0,        \* calls of submit for this job
      accepted   |-> FALSE,    \* the pool took the job
      end        |-> "none",   \* how the body ended: return/raise/interrupt/abort
      sigAtEnd   |-> FALSE,    \* the signal was set when the body ended
      checked    |-> FALSE,    \* line 108 has been evaluated
      sigAtCheck |-> FALSE,    \* the signal was set at line 108
      lateCancel |-> FALSE,    \* cancel set the signal after line 108
      reqAfterReturn |-> FALSE, \* cancel was called after the body returned
      val        |-> NoValue,  \* what the body returned / raised
      absentAtUpdate |-> FALSE, \* line 124 called update with the id not in the store
      done       |-> FALSE ]   \* an execution of the job left _execute_job

InitJobs ==
    /\ now = 0
    /\ jobs = << >>
    /\ _jobs = << >>
    /\ _cancellation_events = << >>
    /\ events = << >>
    /\ queue = << >>
    /\ worker = [w \in Workers |-> IdleWorker]
    /\ executor_shutdown = FALSE
    /\ sd = IdleShutdown
    /\ canc = IdleCaller
    /\ sub = IdleSubmitter
    /\ cr = << >>
    /\ cl = IdleCleaner
    /\ app = << >>
    /\ ret = [op |-> "none", seq |-> 0, arg |-> 0, val |-> None, status |-> None,
              said |-> None, removed |-> {}, cutoff |-> 0]
    /\ calls = [api |-> 0, body |-> 0]
    /\ h = << >>

Init ==
    /\ InitJobs
    /\ pl = IdlePlanner
    /\ fn = NoCall
    /\ reg = NewRegistry
    /\ fin = NoFinalization

\* the record of a finished cancel call: its argument, its outcome, the
\* status the call read from the Job object at line 148 (None when there
\* was no record) and the status its "is not running" message names
CancelReturn(job_id, val, status) ==
    [op |-> "cancel", seq |-> calls.api, arg |-> job_id, val |-> val,
     status |-> status, said |-> None, removed |-> {}, cutoff |-> 0]

\* dict helpers
\* dict assignment that keeps the value of a key already there
PutIfAbsent(d, k, v) ==
    [x \in DOMAIN d \cup {k} |-> IF x \in DOMAIN d THEN d[x] ELSE v]
Put(d, k, v) == [x \in DOMAIN d \cup {k} |-> IF x = k THEN v ELSE d[x]]
Del(d, k) == [x \in DOMAIN d \ {k} |-> d[x]]

is_set(e) == events[e]

\* an entry of _cancellation_events: the Event and the slot of the key in
\* the dict's insertion order (a dict is walked by slot)
Entry(ev, slot) == [ev |-> ev, slot |-> slot]
\* self._cancellation_events[job_id] = cancel_event: a new key goes to the
\* end of the dict, a key already there keeps its slot
SetEntry(table, job_id, e) ==
    Put(table, job_id,
        Entry(e, IF job_id \in DOMAIN table THEN table[job_id].slot ELSE e))

\* ------------------------------------------------------------- the clock
Tick ==
    /\ now < MaxTime
    /\ now' = now + 1
    /\ UNCHANGED << others, jobs, _jobs, _cancellation_events, events, queue, worker,
                    executor_shutdown, sd, canc, ret, calls, h >>

\* ------------------------------------------------------------- JobStore
\* a sequence without its i-th element
Without(seq, i) ==
    [k \in 1..(Len(seq) - 1) |-> IF k < i THEN seq[k] ELSE seq[k + 1]]

\* JobStore.create, lines 183-191: the Job is built, created_at = utcnow();
\* the caller has not yet taken the store's lock
CreateJob(limit, miniapp_id) ==
    /\ Len(jobs) + Len(cr) < limit
    /\ cr' = Append(cr, [miniapp_id |-> miniapp_id, created_at |-> now])
    /\ UNCHANGED << outside, sub, cl, app, now, jobs, _jobs,
                    _cancellation_events, events, queue, worker,
                    executor_shutdown, sd, canc, ret, calls, h >>

\* lines 193-196: with self._lock: self._jobs[job_id] = job; return job
L193(i) ==
    /\ i \in 1..Len(cr)
    /\ LET job_id == Len(jobs) + 1 IN
         /\ jobs' = Append(jobs, NewJob(cr[i].miniapp_id, cr[i].created_at))
         /\ _jobs' = Put(_jobs, job_id, job_id)
         /\ h' = Append(h, NewHistory)
         /\ app' = Append(app, NoRun)
    /\ cr' = Without(cr, i)
    /\ UNCHANGED << outside, sub, cl, now, _cancellation_events, events, queue,
                    worker, executor_shutdown, sd, canc, ret, calls >>

Create(miniapp_id) == CreateJob(MaxJobs, miniapp_id)

\* JobStore.update that inserts the record when the id is absent
updateUpsert(store, job_id, ref) == Put(store, job_id, ref)

\* JobStore.update that drops the record of a FAILED job
updateEvicting(store, job_id, ref) ==
    IF job_id \notin DOMAIN store THEN store
    ELSE IF jobs[ref].status = FAILED THEN Del(store, job_id)
    ELSE Put(store, job_id, ref)

\* JobStore.update: overwrite by id, nothing when the id is absent
update(store, job_id, ref) ==
    IF job_id \in DOMAIN store THEN Put(store, job_id, ref) ELSE store

\* JobStore.delete
Delete(job_id) ==
    /\ job_id \in 1..Len(jobs)
    /\ calls.api < MaxCalls
    /\ _jobs' = Del(_jobs, job_id)
    /\ calls' = [calls EXCEPT !.api = @ + 1]
    /\ UNCHANGED << others, now, jobs, _cancellation_events, events, queue, worker,
                    executor_shutdown, sd, canc, ret, h >>

\* cleanup_old without the test that spares RUNNING records
to_removeAnyStatus(cutoff) ==
    { job_id \in DOMAIN _jobs : jobs[_jobs[job_id]].created_at < cutoff }

\* JobStore.cleanup_old
\* cleanup_old that spares the PENDING records instead of the RUNNING ones
to_removeNotPending(cutoff) ==
    { job_id \in DOMAIN _jobs :
        /\ jobs[_jobs[job_id]].created_at < cutoff
        /\ jobs[_jobs[job_id]].status # PENDING }

to_remove(cutoff) ==
    { job_id \in DOMAIN _jobs :
        /\ jobs[_jobs[job_id]].created_at < cutoff
        /\ jobs[_jobs[job_id]].status # RUNNING }

\* line 268: cutoff = datetime.utcnow() - timedelta(hours=max_age_hours),
\* computed before the lock is taken
CleanupOld(max_age_hours) ==
    /\ cl.pc = "idle"
    /\ calls.api < MaxCalls
    /\ cl' = [pc |-> "l271", max_age_hours |-> max_age_hours,
              cutoff |-> now - max_age_hours]
    /\ calls' = [calls EXCEPT !.api = @ + 1]
    /\ UNCHANGED << outside, sub, cr, app, now, jobs, _jobs,
                    _cancellation_events, events, queue, worker,
                    executor_shutdown, sd, canc, ret, h >>

\* lines 271-282, under the store's lock: the records to remove are
\* selected and deleted; the count is returned
L271 ==
    /\ cl.pc = "l271"
    /\ LET gone == to_remove(cl.cutoff) IN
         /\ _jobs' = [x \in DOMAIN _jobs \ gone |-> _jobs[x]]
         /\ ret' = [op |-> "cleanup_old", seq |-> calls.api,
                    arg |-> cl.max_age_hours, val |-> Cardinality(gone),
                    status |-> None, said |-> None, removed |-> gone,
                    cutoff |-> cl.cutoff]
    /\ cl' = IdleCleaner
    /\ UNCHANGED << outside, sub, cr, app, now, jobs, _cancellation_events,
                    events, queue, worker, executor_shutdown, sd, canc, calls,
                    h >>

\* ------------------------------------------------------------ JobRunner
\* JobRunner.submit, lines 72-73: a new Event is made and stored under the
\* job id
DoSubmit(job_id) ==
    LET e == Len(events) + 1 IN
      /\ events' = Append(events, FALSE)
      /\ _cancellation_events' = SetEntry(_cancellation_events, job_id, e)
      /\ h' = [h EXCEPT ![job_id].submits = @ + 1]
      /\ sub' = [sub EXCEPT !.flight = @ \cup {[job_id |-> job_id, ev |-> e]}]

\* the callers of this repository submit a record they have just created
Submit(job_id) ==
    /\ job_id \in 1..Len(jobs)
    /\ h[job_id].submits = 0
    /\ app[job_id].pc = "none"
    /\ DoSubmit(job_id)
    /\ UNCHANGED << outside, clients, now, jobs, _jobs, queue, worker,
                    executor_shutdown, sd, canc, ret, calls >>

\* line 76: self._executor.submit(...): the task goes to the pool's queue;
\* a pool that was shut down raises RuntimeError, out of submit
L76(job_id, ev) ==
    /\ [job_id |-> job_id, ev |-> ev] \in sub.flight
    /\ LET call == [job_id |-> job_id, ev |-> ev] IN
       IF executor_shutdown
         THEN /\ sub' = [flight |-> sub.flight \ {call}, val |-> "RuntimeError"]
              /\ UNCHANGED << queue, h >>
         ELSE /\ queue' = Append(queue, [job |-> call.job_id, ev |-> call.ev])
              /\ h' = [h EXCEPT ![call.job_id].accepted = TRUE]
              /\ sub' = [flight |-> sub.flight \ {call}, val |-> "job_id"]
    /\ UNCHANGED << outside, clients, now, jobs, _jobs, _cancellation_events,
                    events, worker, executor_shutdown, sd, canc, ret, calls >>

\* a pool thread takes the oldest queued task and enters _execute_job
Dispatch(w) ==
    /\ worker[w].pc = "idle"
    /\ queue # << >>
    /\ worker' = [worker EXCEPT ![w] = [pc |-> "l93", job |-> Head(queue).job,
                                        ev |-> Head(queue).ev, val |-> NoValue,
                                        stmt |-> 0]]
    /\ queue' = Tail(queue)
    /\ UNCHANGED << others, now, jobs, _jobs, _cancellation_events, events,
                    executor_shutdown, sd, canc, ret, calls, h >>

WorkerFrame == << others, now, _cancellation_events, events, queue,
                  executor_shutdown, sd, canc, ret >>

\* line 93: job.status = JobStatus.RUNNING
L93(w) ==
    /\ worker[w].pc = "l93"
    /\ jobs' = [jobs EXCEPT ![worker[w].job].status = RUNNING]
    /\ worker' = [worker EXCEPT ![w].pc = "l94"]
    /\ UNCHANGED << WorkerFrame, calls, _jobs, h >>

\* lines 94-95: job.add_log("Starting workflow: ..."); job_store.update(job)
L94(w) ==
    /\ worker[w].pc = "l94"
    /\ LET j == worker[w].job IN
         /\ jobs' = [jobs EXCEPT ![j] =
                add_log(@, "Starting workflow: " \o @.miniapp_id)]
         /\ _jobs' = update(_jobs, j, j)
    /\ worker' = [worker EXCEPT ![w].pc = "body"]
    /\ UNCHANGED << WorkerFrame, calls, h >>

\* on_log without the test of the cancellation signal (lines 99-100)
on_logUnchecked(w, message) ==
    /\ worker[w].pc = "body"
    /\ calls.body < MaxBodySteps
    /\ worker' = [worker EXCEPT ![w].pc = "l101", ![w].val = Message(message)]
    /\ calls' = [calls EXCEPT !.body = @ + 1]
    /\ UNCHANGED << WorkerFrame, jobs, _jobs, h >>

\* lines 98-100: the body calls on_log(message), which tests the signal
on_log(w, message) ==
    /\ worker[w].pc = "body"
    /\ calls.body < MaxBodySteps
    /\ LET j == worker[w].job IN
         IF is_set(worker[w].ev)
           THEN \* raise InterruptedError("Job cancelled"), out of the body
                /\ worker' = [worker EXCEPT ![w].pc = "l115"]
                /\ h' = [h EXCEPT ![j].end = "abort", ![j].sigAtEnd = TRUE]
           ELSE /\ worker' = [worker EXCEPT ![w].pc = "l101",
                                            ![w].val = Message(message)]
                /\ h' = h
    /\ calls' = [calls EXCEPT !.body = @ + 1]
    /\ UNCHANGED << WorkerFrame, jobs, _jobs >>

\* lines 101-102: job.add_log(message); job_store.update(job); on_log
\* returns to the body
L101(w) ==
    /\ worker[w].pc = "l101"
    /\ LET j == worker[w].job IN
         /\ jobs' = [jobs EXCEPT ![j] = add_log(@, worker[w].val.args[1])]
         /\ _jobs' = update(_jobs, j, j)
    /\ worker' = [worker EXCEPT ![w].pc = "body", ![w].val = NoValue]
    /\ UNCHANGED << WorkerFrame, calls, h >>

\* the body calls job.set_progress(progress, step)
BodySetProgress(w, progress, step) ==
    /\ worker[w].pc = "body"
    /\ calls.body < MaxBodySteps
    /\ jobs' = [jobs EXCEPT ![worker[w].job] =
                    set_progress(@, progress, step)]
    /\ calls' = [calls EXCEPT !.body = @ + 1]
    /\ UNCHANGED << WorkerFrame, worker, _jobs, h >>

\* line 105: workflow_executor returns a result map
BodyReturn(w, result) ==
    /\ worker[w].pc = "body"
    /\ worker' = [worker EXCEPT ![w].pc = "l108", ![w].val = Returned(result)]
    /\ h' = [h EXCEPT ![worker[w].job].end = "return",
                      ![worker[w].job].val = Returned(result),
                      ![worker[w].job].sigAtEnd = is_set(worker[w].ev)]
    /\ UNCHANGED << WorkerFrame, calls, jobs, _jobs >>

\* line 105: workflow_executor raises the exception e
BodyRaise(w, e) ==
    /\ worker[w].pc = "body"
    /\ worker' = [worker EXCEPT ![w].pc = "l120", ![w].val = e]
    /\ h' = [h EXCEPT ![worker[w].job].end = "raise",
                      ![worker[w].job].val = e,
                      ![worker[w].job].sigAtEnd = is_set(worker[w].ev)]
    /\ UNCHANGED << WorkerFrame, calls, jobs, _jobs >>

\* line 105: workflow_executor raises InterruptedError on its own account
BodyInterrupted(w) ==
    /\ worker[w].pc = "body"
    /\ worker' = [worker EXCEPT ![w].pc = "l115"]
    /\ h' = [h EXCEPT ![worker[w].job].end = "interrupt",
                      ![worker[w].job].sigAtEnd = is_set(worker[w].ev)]
    /\ UNCHANGED << WorkerFrame, calls, jobs, _jobs >>

\* line 108: if cancel_event.is_set()
L108(w) ==
    /\ worker[w].pc = "l108"
    /\ worker' = [worker EXCEPT ![w].pc =
                      IF is_set(worker[w].ev) THEN "l109" ELSE "l111"]
    /\ h' = [h EXCEPT ![worker[w].job].checked = TRUE,
                      ![worker[w].job].sigAtCheck = is_set(worker[w].ev)]
    /\ UNCHANGED << WorkerFrame, calls, jobs, _jobs >>

\* the thread inside job.<method>(arg) executes the method's next statement
\* on the shared Job object, holding no lock (job_store.py lines 104-128);
\* datetime.utcnow() is read by the statement that stores it; after the
\* last statement the thread goes on at the line next
Statement(w, method, arg, next) ==
    LET k == worker[w].stmt + 1
        last == k = Len(statements(method))
    IN /\ jobs' = [jobs EXCEPT ![worker[w].job] =
                       assign(@, method, statements(method)[k], arg, now)]
       /\ worker' = [worker EXCEPT ![w].stmt = IF last THEN 0 ELSE k,
                                   ![w].pc = IF last THEN next ELSE @]

\* lines 109 and 115: job.cancel(), one statement of Job.cancel per step
L109(w) ==
    /\ worker[w].pc \in {"l109", "l115"}
    /\ Statement(w, "cancel", None, "l124")
    /\ UNCHANGED << WorkerFrame, calls, _jobs, h >>

\* line 111 re-testing the signal: a late cancel wins over the result
L111Recheck(w) ==
    /\ worker[w].pc = "l111"
    /\ IF worker[w].stmt = 0 /\ is_set(worker[w].ev)
         THEN /\ worker' = [worker EXCEPT ![w].pc = "l109"]
              /\ jobs' = jobs
         ELSE Statement(w, "complete", worker[w].val.args[1], "l112")
    /\ UNCHANGED << WorkerFrame, calls, _jobs, h >>

\* line 111: job.complete(result), one statement of Job.complete per step
L111(w) ==
    /\ worker[w].pc = "l111"
    /\ Statement(w, "complete", worker[w].val.args[1], "l112")
    /\ UNCHANGED << WorkerFrame, calls, _jobs, h >>

\* line 112: job.add_log("Workflow complete")
L112(w) ==
    /\ worker[w].pc = "l112"
    /\ jobs' = [jobs EXCEPT ![worker[w].job] =
                    add_log(@, "Workflow complete")]
    /\ worker' = [worker EXCEPT ![w].pc = "l124"]
    /\ UNCHANGED << WorkerFrame, calls, _jobs, h >>

\* lines 117-120: except Exception as e: job.fail(str(e)), one statement of
\* Job.fail per step
L120(w) ==
    /\ worker[w].pc = "l120"
    /\ Statement(w, "fail", str(worker[w].val), "l124")
    /\ UNCHANGED << WorkerFrame, calls, _jobs, h >>

\* line 124, in the finally block: self.job_store.update(job)
L124(w) ==
    /\ worker[w].pc = "l124"
    /\ LET j == worker[w].job IN
         /\ _jobs' = update(_jobs, j, j)
         /\ h' = [h EXCEPT ![j].absentAtUpdate = @ \/ j \notin DOMAIN _jobs]
    /\ worker' = [worker EXCEPT ![w].pc = "l127"]
    /\ UNCHANGED << others, now, jobs, _cancellation_events, events, queue,
                    executor_shutdown, sd, canc, ret, calls >>

\* a finally block that keeps the table entry of a job that ended FAILED
L127KeepFailed(w) ==
    /\ worker[w].pc = "l127"
    /\ LET j == worker[w].job IN
         IF j \in DOMAIN _cancellation_events /\ jobs[j].status # FAILED
           THEN /\ worker' = [worker EXCEPT ![w].pc = "l128"]
                /\ h' = h
           ELSE /\ worker' = [worker EXCEPT ![w] = IdleWorker]
                /\ h' = [h EXCEPT ![j].done = TRUE]
    /\ UNCHANGED << others, now, jobs, _jobs, _cancellation_events, events, queue,
                    executor_shutdown, sd, canc, ret, calls >>

\* line 127: if job.job_id in self._cancellation_events; without the entry
\* _execute_job ends and the thread is free for the next task
L127(w) ==
    /\ worker[w].pc = "l127"
    /\ LET j == worker[w].job IN
         IF j \in DOMAIN _cancellation_events
           THEN /\ worker' = [worker EXCEPT ![w].pc = "l128"]
                /\ h' = h
           ELSE /\ worker' = [worker EXCEPT ![w] = IdleWorker]
                /\ h' = [h EXCEPT ![j].done = TRUE]
    /\ UNCHANGED << others, now, jobs, _jobs, _cancellation_events, events, queue,
                    executor_shutdown, sd, canc, ret, calls >>

\* a pool thread that ends after its first job instead of taking the next
L128ThreadExits(w) ==
    /\ worker[w].pc = "l128"
    /\ LET j == worker[w].job IN
         /\ _cancellation_events' =
                IF j \in DOMAIN _cancellation_events
                  THEN Del(_cancellation_events, j)
                  ELSE _cancellation_events
         /\ h' = [h EXCEPT ![j].done = TRUE]
    /\ worker' = [worker EXCEPT ![w] = [IdleWorker EXCEPT !.pc = "exited"]]
    /\ UNCHANGED << others, now, jobs, _jobs, events, queue, executor_shutdown,
                    sd, canc, ret, calls >>

\* line 128: del self._cancellation_events[job.job_id]; an entry that has
\* gone since line 127 gives KeyError, which ends _execute_job as well (the
\* pool keeps it in the task's Future); the thread is free for the next task
L128(w) ==
    /\ worker[w].pc = "l128"
    /\ LET j == worker[w].job IN
         /\ _cancellation_events' =
                IF j \in DOMAIN _cancellation_events
                  THEN Del(_cancellation_events, j)
                  ELSE _cancellation_events
         /\ h' = [h EXCEPT ![j].done = TRUE]
    /\ worker' = [worker EXCEPT ![w] = IdleWorker]
    /\ UNCHANGED << others, now, jobs, _jobs, events, queue, executor_shutdown,
                    sd, canc, ret, calls >>

\* JobRunner.cancel, lines 143-146: job = self.job_store.get(job_id), read
\* under the store's lock; no record raises ValueError("... not found")
CancelLookup(job_id) ==
    /\ canc.pc = "idle"
    /\ calls.api < MaxCalls
    /\ calls' = [calls EXCEPT !.api = @ + 1]
    /\ IF job_id \notin DOMAIN _jobs
         THEN /\ ret' = [CancelReturn(job_id, "not found", None)
                            EXCEPT !.seq = calls.api + 1]
              /\ canc' = canc
         ELSE /\ canc' = [pc |-> "l148", job_id |-> job_id,
                          job |-> _jobs[job_id], status |-> None, ev |-> 0]
              /\ ret' = ret
    /\ h' = IF job_id \in 1..Len(h)
              THEN [h EXCEPT ![job_id].reqAfterReturn = @ \/ h[job_id].end = "return"]
              ELSE h
    /\ UNCHANGED << others, now, jobs, _jobs, _cancellation_events, events, queue,
                    worker, executor_shutdown, sd >>

\* line 148: if job.status != JobStatus.RUNNING, read from the Job object
L148 ==
    /\ canc.pc = "l148"
    /\ canc' = [canc EXCEPT !.pc = IF jobs[canc.job].status # RUNNING
                                     THEN "l150" ELSE "l153",
                            !.status = jobs[canc.job].status]
    /\ UNCHANGED << others, now, jobs, _jobs, _cancellation_events, events, queue,
                    worker, executor_shutdown, sd, ret, calls, h >>

\* lines 149-151: raise ValueError("... is not running (status: ...)"); the
\* message reads job.status again
L150 ==
    /\ canc.pc = "l150"
    /\ ret' = [CancelReturn(canc.job_id, "is not running", canc.status)
                  EXCEPT !.said = jobs[canc.job].status]
    /\ canc' = IdleCaller
    /\ UNCHANGED << others, now, jobs, _jobs, _cancellation_events, events, queue,
                    worker, executor_shutdown, sd, calls, h >>

\* line 153: if job_id in self._cancellation_events, else return False
CancelCheck ==
    /\ canc.pc = "l153"
    /\ IF canc.job_id \in DOMAIN _cancellation_events
         THEN /\ canc' = [canc EXCEPT !.pc = "l154"]
              /\ ret' = ret
         ELSE /\ canc' = IdleCaller
              /\ ret' = CancelReturn(canc.job_id, "False", RUNNING)
    /\ UNCHANGED << others, now, jobs, _jobs, _cancellation_events, events, queue,
                    worker, executor_shutdown, sd, calls, h >>

\* line 154, the lookup: self._cancellation_events[job_id]; an entry that
\* has gone since line 153 gives KeyError
L154 ==
    /\ canc.pc = "l154"
    /\ IF canc.job_id \in DOMAIN _cancellation_events
         THEN /\ canc' = [canc EXCEPT !.pc = "set",
                             !.ev = _cancellation_events[canc.job_id].ev]
              /\ ret' = ret
         ELSE /\ canc' = IdleCaller
              /\ ret' = CancelReturn(canc.job_id, "KeyError", RUNNING)
    /\ UNCHANGED << others, now, jobs, _jobs, _cancellation_events, events, queue,
                    worker, executor_shutdown, sd, calls, h >>

\* line 108 has been evaluated for the job
PastCheck(job_id) == h[job_id].checked

\* lines 154-155: .set() on the Event that was looked up; return True
CancelSet ==
    /\ canc.pc = "set"
    /\ events' = [events EXCEPT ![canc.ev] = TRUE]
    /\ ret' = CancelReturn(canc.job_id, "True", RUNNING)
    /\ h' = [h EXCEPT ![canc.job_id].lateCancel = @ \/ PastCheck(canc.job_id)]
    /\ canc' = IdleCaller
    /\ UNCHANGED << others, now, jobs, _jobs, _cancellation_events, queue, worker,
                    executor_shutdown, sd, calls >>

\* JobRunner.shutdown(wait), line 167: for event in ....values(): the
\* iterator is made
ShutdownStart(wait) ==
    /\ sd.pc = "idle"
    /\ calls.api < MaxCalls
    /\ calls' = [calls EXCEPT !.api = @ + 1]
    /\ sd' = [pc |-> "iter", wait |-> wait,
              size |-> Cardinality(DOMAIN _cancellation_events),
              len |-> Cardinality(DOMAIN _cancellation_events),
              pos |-> 0, ev |-> 0, err |-> "None",
              outstanding |-> [j \in DOMAIN _cancellation_events |->
                                   _cancellation_events[j].ev]]
    /\ UNCHANGED << others, now, jobs, _jobs, _cancellation_events, events, queue,
                    worker, executor_shutdown, canc, ret, h >>

\* lines 167-168, one pass of the loop. The iterator raises RuntimeError
\* when the size of the dict is not the one it started with; it gives the
\* entry of the next filled slot; when it finds one although it has given
\* as many as the dict had, it raises RuntimeError (keys changed); when no
\* slot is left the loop ends.
ShutdownStep ==
    /\ sd.pc = "iter"
    /\ LET ahead == { k \in DOMAIN _cancellation_events :
                        _cancellation_events[k].slot > sd.pos } IN
         IF Cardinality(DOMAIN _cancellation_events) # sd.size
           THEN /\ sd' = [sd EXCEPT !.pc = "error", !.err = "changed size"]
                /\ events' = events
           ELSE IF ahead = {}
           THEN /\ sd' = [sd EXCEPT !.pc = "l171"]
                /\ events' = events
           ELSE IF sd.len = 0
           THEN /\ sd' = [sd EXCEPT !.pc = "error", !.err = "keys changed"]
                /\ events' = events
           ELSE LET k == CHOOSE x \in ahead : \A y \in ahead :
                             _cancellation_events[x].slot
                                 <= _cancellation_events[y].slot
                IN /\ events' = events
                   /\ sd' = [sd EXCEPT !.pc = "l168",
                                       !.ev = _cancellation_events[k].ev,
                                       !.pos = _cancellation_events[k].slot,
                                       !.len = @ - 1]
    /\ UNCHANGED << others, now, jobs, _jobs, _cancellation_events, queue, worker,
                    executor_shutdown, canc, ret, calls, h >>

\* line 168: event.set() on the Event the iterator gave
L168 ==
    /\ sd.pc = "l168"
    /\ events' = [events EXCEPT ![sd.ev] = TRUE]
    /\ sd' = [sd EXCEPT !.pc = "iter"]
    /\ UNCHANGED << others, now, jobs, _jobs, _cancellation_events, queue, worker,
                    executor_shutdown, canc, ret, calls, h >>

\* line 171: self._executor.shutdown(wait=wait): the pool takes no new
\* task; with wait the caller stays until the pool has run what it had
L171 ==
    /\ sd.pc = "l171"
    /\ executor_shutdown' = TRUE
    /\ sd' = [sd EXCEPT !.pc = IF sd.wait THEN "join" ELSE "done"]
    /\ UNCHANGED << others, now, jobs, _jobs, _cancellation_events, events, queue,
                    worker, canc, ret, calls, h >>

\* line 171 with wait=True returns: the queue is empty and the threads
\* have ended
ShutdownJoin ==
    /\ sd.pc = "join"
    /\ queue = << >>
    /\ \A w \in Workers : worker[w].pc = "idle"
    /\ sd' = [sd EXCEPT !.pc = "done"]
    /\ UNCHANGED << others, now, jobs, _jobs, _cancellation_events, events, queue,
                    worker, executor_shutdown, canc, ret, calls, h >>

\* ------------------------------------------------------ a mini app's run
\* MarketScraperWorkflow.run works on the record it has created itself
\* (workflow.py line 61) and never hands it to the runner.
\* workflow.py line 66 calls BaseMiniApp._log, base.py lines 165-166:
\* job = self.job_store.get(job_id); if job
_log(job_id) ==
    /\ job_id \in 1..Len(jobs)
    /\ h[job_id].submits = 0
    /\ app[job_id].pc = "none"
    /\ app' = [app EXCEPT ![job_id] =
                  IF job_id \in DOMAIN _jobs
                    THEN [NoRun EXCEPT !.pc = "l167", !.job = _jobs[job_id]]
                    ELSE [NoRun EXCEPT !.pc = "try"]]
    /\ UNCHANGED << outside, sub, cr, cl, now, jobs, _jobs,
                    _cancellation_events, events, queue, worker,
                    executor_shutdown, sd, canc, ret, calls, h >>

\* base.py line 167: job.logs.append("[...] " + message)
_logAppend(job_id, message) ==
    /\ job_id \in 1..Len(jobs)
    /\ app[job_id].pc = "l167"
    /\ jobs' = [jobs EXCEPT ![app[job_id].job].logs = Append(@, message)]
    /\ app' = [app EXCEPT ![job_id].pc = "l168"]
    /\ UNCHANGED << outside, sub, cr, cl, now, _jobs, _cancellation_events,
                    events, queue, worker, executor_shutdown, sd, canc, ret,
                    calls, h >>

\* base.py line 168: self.job_store.update(job_id, job): JobStore.update
\* takes the job alone, the call raises TypeError; line 66 stands outside
\* the try of run(), which ends with that error
_logUpdate(job_id) ==
    /\ job_id \in 1..Len(jobs)
    /\ app[job_id].pc = "l168"
    /\ app' = [app EXCEPT ![job_id] = [NoRun EXCEPT !.pc = "TypeError"]]
    /\ UNCHANGED << outside, sub, cr, cl, now, jobs, _jobs,
                    _cancellation_events, events, queue, worker,
                    executor_shutdown, sd, canc, ret, calls, h >>

\* run() inside job.<method>(arg) on its own record executes the method's
\* next statement (job_store.py lines 104-120); the method is entered from
\* the try block with the argument val and left for the return statement
RunStatement(job_id, method, arg, val, at) ==
    LET k == app[job_id].stmt + 1
        last == k = Len(statements(method))
    IN /\ app[job_id].pc \in {"try", at}
       /\ app[job_id].pc = at => app[job_id].val = val
       /\ jobs' = [jobs EXCEPT ![job_id] =
                       assign(@, method, statements(method)[k], arg, now)]
       /\ app' = [app EXCEPT ![job_id] =
                      IF last THEN [NoRun EXCEPT !.pc = "returned"]
                      ELSE [@ EXCEPT !.pc = at, !.val = val, !.stmt = k]]

\* a record that was removed before line 66 stays out of the store: get
\* gives None to every later _log call, which does nothing, and run() goes
\* through its try block. workflow.py line 171: job.complete(result), one
\* statement of Job.complete per step
RunComplete(job_id, result) ==
    /\ job_id \in 1..Len(jobs)
    /\ RunStatement(job_id, "complete", result, Returned(result), "l171")
    /\ UNCHANGED << outside, sub, cr, cl, now, _jobs, _cancellation_events,
                    events, queue, worker, executor_shutdown, sd, canc, ret,
                    calls, h >>

\* workflow.py lines 188-191: except Exception as e: job.fail(str(e)), one
\* statement of Job.fail per step
RunFail(job_id, e) ==
    /\ job_id \in 1..Len(jobs)
    /\ RunStatement(job_id, "fail", str(e), e, "l191")
    /\ UNCHANGED << outside, sub, cr, cl, now, _jobs, _cancellation_events,
                    events, queue, worker, executor_shutdown, sd, canc, ret,
                    calls, h >>

\* one step of a mini app's run() after its record was created
Run(job_id) ==
    \/ _log(job_id)
    \/ \E m \in RunMsgs : _logAppend(job_id, m)
    \/ _logUpdate(job_id)
    \/ \E r \in Results : RunComplete(job_id, r)
    \/ \E e \in Exceptions : RunFail(job_id, e)

\* ------------------------------------------------- the runner's lifecycle
\* one step of a pool thread through _execute_job, the body's own calls aside
Lifecycle(w) ==
    \/ Dispatch(w)
    \/ L93(w)
    \/ L94(w)
    \/ \E r \in Results : BodyReturn(w, r)
    \/ \E e \in Exceptions : BodyRaise(w, e)
    \/ BodyInterrupted(w)
    \/ L108(w)
    \/ L109(w)
    \/ L111(w)
    \/ L112(w)
    \/ L120(w)
    \/ L124(w)
    \/ L127(w)
    \/ L128(w)

\* a body that logs through the callback while it runs
BodyCall(w) ==
    \/ \E m \in LogMsgs : on_log(w, m)
    \/ L101(w)

WorkerStep(w) == Lifecycle(w) \/ BodyCall(w)

\* the steps of a client calling JobRunner.cancel
CancelStep ==
    \/ \E j \in JobIds : CancelLookup(j)
    \/ L148
    \/ L150
    \/ CancelCheck
    \/ L154
    \/ CancelSet

\* the runner as this repository drives it: records are created, submitted
\* once, executed by the pool and cancelled by clients
Next ==
    \/ \E a \in MiniApps : Create(a)
    \/ \E i \in JobIds : L193(i)
    \/ \E j \in JobIds : Submit(j)
    \/ \E j \in JobIds, e \in EventIds : L76(j, e)
    \/ \E w \in Workers : WorkerStep(w)
    \/ CancelStep

Spec == Init /\ [][Next]_vars

\* the runner with bodies that report their progress, and clients that
\* cancel: every way an execution can end
ProgressStep(w) ==
    Lifecycle(w) \/ \E a \in ProgressInputs : BodySetProgress(w, a[1], a[2])

NextOutcome ==
    \/ \E a \in MiniApps : Create(a)
    \/ \E i \in JobIds : L193(i)
    \/ \E j \in JobIds : Submit(j)
    \/ \E j \in JobIds, e \in EventIds : L76(j, e)
    \/ \E w \in Workers : ProgressStep(w)
    \/ CancelStep

SpecOutcome == Init /\ [][NextOutcome]_vars

\* cleanup_old next to the running pool, while time passes
NextCleanup ==
    \/ Tick
    \/ \E a \in MiniApps : Create(a)
    \/ \E i \in JobIds : L193(i)
    \/ \E j \in JobIds : Submit(j)
    \/ \E j \in JobIds, e \in EventIds : L76(j, e)
    \/ \E w \in Workers : Lifecycle(w)
    \/ \E a \in AgeInputs : CleanupOld(a)
    \/ L271

SpecCleanup == Init /\ [][NextCleanup]_vars

\* delete next to the running pool and to a mini app's run
NextDelete ==
    \/ \E a \in MiniApps : Create(a)
    \/ \E i \in JobIds : L193(i)
    \/ \E j \in JobIds : Submit(j)
    \/ \E j \in JobIds, e \in EventIds : L76(j, e)
    \/ \E w \in Workers : WorkerStep(w)
    \/ \E j \in JobIds : Delete(j)
    \/ \E j \in JobIds : Run(j)

SpecDelete == Init /\ [][NextDelete]_vars

\* every operation that writes progress: bodies that log and report their
\* progress, and a mini app's run
NextProgress ==
    \/ NextDelete
    \/ \E w \in Workers, a \in ProgressInputs : BodySetProgress(w, a[1], a[2])

SpecProgress == Init /\ [][NextProgress]_vars

\* all of the store's housekeeping together
NextStore ==
    \/ NextCleanup
    \/ \E j \in JobIds : Delete(j)
    \/ \E j \in JobIds : Run(j)

SpecStore == Init /\ [][NextStore]_vars

\* ------------------------------------------- records used a second time
\* JobRunner.submit called again for a record that was submitted before
\* (lines 72-73; line 76 follows)
Resubmit(job_id) ==
    /\ job_id \in 1..Len(jobs)
    /\ h[job_id].submits > 0
    /\ calls.api < MaxCalls
    /\ calls' = [calls EXCEPT !.api = @ + 1]
    /\ DoSubmit(job_id)
    /\ UNCHANGED << outside, clients, now, jobs, _jobs, queue, worker,
                    executor_shutdown, sd, canc, ret >>

NextReuse ==
    \/ Next
    \/ \E j \in JobIds : Resubmit(j)

SpecReuse == Init /\ [][NextReuse]_vars

\* ------------------------------------------------------ fair scheduling
\* N + 1 submissions to a pool of N threads; the threads keep running: a
\* thread that can take a step takes one
CreateForPool(miniapp_id) == CreateJob(PoolJobs, miniapp_id)

\* a pool thread running bodies that log and end
PoolStep(w) == WorkerStep(w)

NextFair ==
    \/ \E a \in MiniApps : CreateForPool(a)
    \/ \E i \in JobIds : L193(i)
    \/ \E j \in JobIds : Submit(j)
    \/ \E j \in JobIds, e \in EventIds : L76(j, e)
    \/ \E w \in Workers : PoolStep(w)

SpecFair ==
    /\ Init
    /\ [][NextFair]_vars
    /\ \A w \in Workers : WF_vars(PoolStep(w))

\* ------------------------------------------------------------- shutdown
\* shutdown called by a client while the pool works through N + 1 jobs
NextShutdown ==
    \/ \E a \in MiniApps : CreateForPool(a)
    \/ \E i \in JobIds : L193(i)
    \/ \E j \in JobIds : Submit(j)
    \/ \E j \in JobIds, e \in EventIds : L76(j, e)
    \/ \E w \in Workers : Lifecycle(w)
    \/ \E wait \in BOOLEAN : ShutdownStart(wait)
    \/ ShutdownStep
    \/ L168
    \/ L171
    \/ ShutdownJoin

SpecShutdown == Init /\ [][NextShutdown]_vars

\* ------------------------------------------------------ Planner.execute
\* lines 163-164: _generate_plan builds the tool catalogue and the prompt,
\* the LLM answers with a list of steps, the plan gets a copy of the
\* context; plan.status = "running"
\* _generate_plan that stores the caller's dict in the plan (no .copy())
ExecuteAliased(allowed_tools, steps) ==
    /\ pl.pc = "idle"
    /\ pl' = [pl EXCEPT !.pc = "validate",
                        !.allowed_tools = allowed_tools,
                        !.catalogue = _get_tool_descriptions(allowed_tools),
                        !.steps = steps,
                        !.context = pl.caller,
                        !.aliased = TRUE,
                        !.status = "running"]
    /\ UNCHANGED notPlanner

\* lines 163-164: _generate_plan (the LLM answers with steps; line 290:
\* plan.context is context.copy(), a new dict), plan.status = "running"
Execute(allowed_tools, steps) ==
    /\ pl.pc = "idle"
    /\ pl' = [pl EXCEPT !.pc = "validate",
                        !.allowed_tools = allowed_tools,
                        !.catalogue = _get_tool_descriptions(allowed_tools),
                        !.steps = steps,
                        !.context = pl.caller,
                        !.aliased = FALSE,
                        !.status = "running"]
    /\ UNCHANGED notPlanner

\* execute that runs the first step's tool before it validates the plan
ValidateLate ==
    /\ pl.pc = "validate"
    /\ LET e == _validate_plan(pl.steps, pl.allowed_tools) IN
         IF e # NoError
           THEN pl' = [pl EXCEPT !.pc = "raised", !.status = "failed",
                                 !.error = e,
                                 !.invoked = IF pl.steps = << >> THEN @
                                     ELSE Append(@, [tool |-> pl.steps[1].tool_name,
                                                     inputs |-> EmptyMap])]
           ELSE pl' = [pl EXCEPT !.pc = "loop", !.i = 1]
    /\ UNCHANGED notPlanner

\* lines 167-172: _validate_plan; a ValueError marks the plan failed and is
\* raised to the caller
Validate ==
    /\ pl.pc = "validate"
    /\ LET e == _validate_plan(pl.steps, pl.allowed_tools) IN
         IF e # NoError
           THEN pl' = [pl EXCEPT !.pc = "raised", !.status = "failed",
                                 !.error = e]
           ELSE pl' = [pl EXCEPT !.pc = "loop", !.i = 1]
    /\ UNCHANGED notPlanner

\* lines 175-178: the loop takes the next step, step.status = "running";
\* after the last step the loop ends
StepStart ==
    /\ pl.pc = "loop"
    /\ IF pl.i > Len(pl.steps)
         THEN pl' = [pl EXCEPT !.pc = "end"]
         ELSE pl' = [pl EXCEPT !.pc = "step", !.steps[pl.i].status = "running"]
    /\ UNCHANGED notPlanner

\* a failure handler that goes on with the next step (no break)
StepFailedContinue(message) ==
    [pl EXCEPT !.pc = "loop",
               !.steps[pl.i].status = "failed",
               !.steps[pl.i].error = message,
               !.i = @ + 1,
               !.status = "failed"]

\* lines 201-208: except Exception: the step and the plan fail, break
StepFailed(message) ==
    [pl EXCEPT !.pc = "end",
               !.steps[pl.i].status = "failed",
               !.steps[pl.i].error = message,
               !.status = "failed"]

\* lines 180-199: get the tool, resolve the inputs, call tool.execute, which
\* ends as outcome says (a call that lacks a field the tool requires does
\* not succeed), and store the outputs
StepRun(outcome) ==
    /\ pl.pc = "step"
    /\ LET step == pl.steps[pl.i]
           tool == get_tool(step.tool_name)
           resolved_inputs == _resolve_inputs(step.inputs, pl.context)
           called == [pl EXCEPT !.invoked =
                         Append(@, [tool |-> tool, inputs |-> resolved_inputs.items])]
       IN IF tool = None
            THEN /\ outcome = "raise"
                 /\ pl' = StepFailed("Tool not found: " \o step.tool_name)
          ELSE IF resolved_inputs.error # None
            THEN /\ outcome = "raise"
                 /\ pl' = StepFailed(resolved_inputs.error)
          ELSE IF outcome = "raise"
            THEN pl' = [StepFailed("tool raised") EXCEPT !.invoked = called.invoked]
          ELSE IF ~(required(tool) \subseteq DOMAIN resolved_inputs.items)
            THEN \* a tool reads its required field: KeyError (the "raise"
                 \* above), or the failure it reports before reading it
                 /\ outcome = "failure"
                 /\ pl' = [StepFailed("Tool execution failed: error")
                               EXCEPT !.invoked = called.invoked]
          ELSE IF outcome = "failure"
            THEN pl' = [StepFailed("Tool execution failed: error")
                            EXCEPT !.invoked = called.invoked]
          ELSE pl' = [called EXCEPT
                        !.context = Put(@, step.output_variable, outputs(tool)),
                        \* the same assignment, seen through the caller's
                        \* name when both names denote one dict
                        !.caller = IF pl.aliased
                                     THEN Put(@, step.output_variable,
                                              outputs(tool))
                                     ELSE @,
                        !.steps[pl.i].result = outputs(tool),
                        !.steps[pl.i].status = "completed",
                        !.i = @ + 1,
                        !.pc = "loop"]
    /\ UNCHANGED notPlanner

\* the end of execute with the test of line 211 left out
ReturnCompleted ==
    /\ pl.pc = "end"
    /\ pl' = [pl EXCEPT !.pc = "returned", !.status = "completed"]
    /\ UNCHANGED notPlanner

\* lines 211-215: completed when every step is completed; return plan
Return ==
    /\ pl.pc = "end"
    /\ pl' = [pl EXCEPT !.pc = "returned",
                        !.status = IF \A k \in 1..Len(pl.steps) :
                                          pl.steps[k].status = "completed"
                                     THEN "completed" ELSE @]
    /\ UNCHANGED notPlanner

\* a caller invokes execute with some whitelist, the LLM answers with some plan
Call ==
    /\ pl.pc = "idle"
    /\ \E a \in Whitelists, p \in Plans : Execute(a, p)

\* one call of Planner.execute for every whitelist and every LLM response
NextPlanner ==
    \/ Call
    \/ Validate
    \/ StepStart
    \/ \E o \in Outcomes : StepRun(o)
    \/ Return

SpecPlanner == Init /\ [][NextPlanner]_vars

\* ------------------------------------------------ _resolve_inputs alone
\* lines 353-363: a new dict is filled and returned, or ValueError is
\* raised; the function assigns to neither of its arguments
ResolveCall ==
    /\ fn.op = "_resolve_inputs"
    /\ fn.pc = "called"
    /\ LET r == _resolve_inputs(fn.inputs, fn.context) IN
         fn' = IF r.error = None
                 THEN [fn EXCEPT !.pc = "returned",
                                 !.result = Dict(r.keys, r.items)]
                 ELSE [fn EXCEPT !.pc = "raised", !.error = r.error]
    /\ UNCHANGED << jobVars, pl, reg, fin >>

InitResolve ==
    /\ InitJobs
    /\ pl = IdlePlanner
    /\ fn \in ResolveCalls
    /\ reg = NewRegistry
    /\ fin = NoFinalization

SpecResolve == InitResolve /\ [][ResolveCall]_vars

\* ------------------------------------------------------- ToolRegistry
\* lines 51-58
Register(tool) ==
    /\ Len(reg.registered) < MaxRegs
    /\ reg' = [_tools |-> register(reg._tools, tool),
               registered |-> Append(reg.registered, tool)]
    /\ UNCHANGED << jobVars, pl, fn, fin >>

NextRegistry == \E tool \in RegisteredTools : Register(tool)

SpecRegistry == Init /\ [][NextRegistry]_vars

\* ------------------------------------------- Job.complete / fail / cancel
\* the worker thread runs the next statement of the method
FinalizeStep ==
    /\ fin.pc # 0
    /\ fin.pc <= Len(statements(fin.method))
    /\ fin' = [fin EXCEPT !.job = assign(@, fin.method,
                                         statements(fin.method)[fin.pc],
                                         fin.arg, now),
                          !.pc = @ + 1]
    /\ UNCHANGED << jobVars, pl, fn, reg >>

\* another thread calls JobStore.get (lines 198-209), which hands out the
\* Job object itself, and reads its attributes
Get ==
    /\ fin.pc # 0
    /\ fin' = [fin EXCEPT !.seen = fin.job]
    /\ UNCHANGED << jobVars, pl, fn, reg >>

InitFinalize ==
    /\ InitJobs
    /\ pl = IdlePlanner
    /\ fn = NoCall
    /\ reg = NewRegistry
    /\ fin \in Finalizations

NextFinalize ==
    \/ FinalizeStep
    \/ Get

SpecFinalize == InitFinalize /\ [][NextFinalize]_vars

\* ------------------------------------------------- tool.execute alone
Nets == { "ok", "http_error", "timeout" }
ExecuteCalls ==
    { [ op     |-> "execute",
        pc     |-> "called",
        tool   |-> tool_name,
        inputs |-> inputs,
        deps   |-> deps,
        net    |-> net,
        result |-> ToolResult(FALSE, None) ]
      : tool_name \in {"scrape_url", "image_generate", "video_generate"},
        inputs \in Maps({"url", "prompt"}, {Str("http://x"), Number("42")}),
        deps \in BOOLEAN, net \in Nets }

ExecuteCall ==
    /\ fn.op = "execute"
    /\ fn.pc = "called"
    /\ LET r == execute(fn.tool, fn.inputs, fn.deps, fn.net) IN
         fn' = [fn EXCEPT !.pc = IF r.raised = None THEN "returned"
                                                   ELSE "raised",
                          !.result = r]
    /\ UNCHANGED << jobVars, pl, reg, fin >>

InitTool ==
    /\ InitJobs
    /\ pl = IdlePlanner
    /\ fn \in ExecuteCalls
    /\ reg = NewRegistry
    /\ fin = NoFinalization

SpecTool == InitTool /\ [][ExecuteCall]_vars

\* ------------------------------------------- BaseTool.validate_inputs
\* a Python value: its class and its repr
Py(cls, repr) == [type |-> cls, v |-> repr]
PyValues ==
    { Py("str", "'a'"), Py("int", "7"), Py("float", "1.5"),
      Py("bool", "True"), Py("list", "[]"), Py("dict", "{}"),
      Py("NoneType", "None") }

\* isinstance(value, classes): bool is a subclass of int
isinstance(value, classes) ==
    \/ value.type \in classes
    \/ value.type = "bool" /\ "int" \in classes

\* type_map.get(expected_type), lines 81-90; {} stands for None
type_map(expected_type) ==
    CASE expected_type = "string"  -> {"str"}
      [] expected_type = "integer" -> {"int"}
      [] expected_type = "number"  -> {"int", "float"}
      [] expected_type = "boolean" -> {"bool"}
      [] expected_type = "array"   -> {"list"}
      [] expected_type = "object"  -> {"dict"}
      [] OTHER                     -> {}

_check_type(value, expected_type) ==
    LET expected == type_map(expected_type)
    IN IF expected # {} THEN isinstance(value, expected) ELSE TRUE

\* the fields of the schemas and of the inputs; a property's "type" is one
\* of the six JSON Schema names, a name type_map does not know, or "" for
\* a property without "type"
Fields == { "a", "b" }
SchemaTypes ==
    { "string", "integer", "number", "boolean", "array", "object",
      "uuid", "" }
InputSchemas ==
    { [required |-> req, properties |-> props]
        : req \in { << >>, << "a" >>, << "a", "b" >>, << "b", "a" >> },
          props \in UNION { [F -> SchemaTypes] : F \in SUBSET Fields } }

\* inputs: a dict in insertion order, as the sequence of its items
Item(field, value) == [field |-> field, value |-> value]
InputDicts ==
    { << >> }
    \cup { << Item(f, v) >> : f \in Fields, v \in PyValues }
    \cup { d \in { << Item(f, v), Item(g, w) >>
                      : f \in Fields, g \in Fields,
                        v \in PyValues, w \in PyValues }
               : d[1].field # d[2].field }
fields_of(inputs) == { inputs[i].field : i \in DOMAIN inputs }

\* (is_valid, error_message)
Valid == [is_valid |-> TRUE, kind |-> "None", field |-> "", expected |-> ""]
MissingRequired(field) ==
    [is_valid |-> FALSE, kind |-> "Missing required field",
     field |-> field, expected |-> ""]
InvalidType(field, expected_type) ==
    [is_valid |-> FALSE, kind |-> "Invalid type for",
     field |-> field, expected |-> expected_type]

\* lines 63-77
validate_inputs(input_schema, inputs) ==
    LET required_ == input_schema.required
        properties == input_schema.properties
        missing == { i \in DOMAIN required_ :
                       required_[i] \notin fields_of(inputs) }
        bad(i) ==
            /\ inputs[i].field \in DOMAIN properties
            /\ properties[inputs[i].field] # ""
            /\ ~ _check_type(inputs[i].value, properties[inputs[i].field])
        mistyped == { i \in DOMAIN inputs : bad(i) }
        first(S) == CHOOSE i \in S : \A j \in S : i <= j
    IN IF missing # {}
         THEN MissingRequired(required_[first(missing)])
       ELSE IF mistyped # {}
         THEN InvalidType(inputs[first(mistyped)].field,
                          properties[inputs[first(mistyped)].field])
       ELSE Valid

ValidateCalls ==
    { [ op           |-> "validate_inputs",
        pc           |-> "called",
        input_schema |-> input_schema,
        inputs       |-> inputs,
        result       |-> Valid ]
        : input_schema \in InputSchemas, inputs \in InputDicts }

ValidateCall ==
    /\ fn.op = "validate_inputs"
    /\ fn.pc = "called"
    /\ fn' = [fn EXCEPT !.pc = "returned",
                        !.result = validate_inputs(fn.input_schema, fn.inputs)]
    /\ UNCHANGED << jobVars, pl, reg, fin >>

InitValidate ==
    /\ InitJobs
    /\ pl = IdlePlanner
    /\ fn \in ValidateCalls
    /\ reg = NewRegistry
    /\ fin = NoFinalization

SpecValidate == InitValidate /\ [][ValidateCall]_vars

\* ---------------------------------------- _generate_plan: the decoding
\* what a JSON parse gives: kind "invalid" for JSONDecodeError, "nomatch"
\* when the regular expression of line 261 finds nothing, "object" for a
\* dict and "other" for a list, a string, a number or null; of an object,
\* whether "steps" is a list, is missing or is null, and the list
Parsed(kind, steps_kind, items) ==
    [kind |-> kind, steps_kind |-> steps_kind, items |-> items]
Unparsed(kind) == Parsed(kind, "absent", << >>)
Objects ==
    { Parsed("object", "list", items) :
        items \in { p \in Payloads : Len(p) <= 1 } }
    \cup { Parsed("object", "absent", << >>), Parsed("object", "null", << >>) }

\* LLM responses: the length of the text, what json.loads makes of the
\* whole text (line 252) and what it makes of the text the regular
\* expression cuts out (lines 261-265), which starts with "{"
Responses ==
    { [len |-> n, strict |-> strict, embedded |-> embedded]
        : n \in {14, 200, 450},
          strict \in Objects \cup {Unparsed("other"), Unparsed("invalid")},
          embedded \in { o \in Objects : o.items = << >> }
                         \cup {Unparsed("nomatch"), Unparsed("invalid")} }

\* ValueError(f"LLM returned invalid JSON: {response[:200]}...")
MalformedPlan(response) ==
    [cls |-> "ValueError", prefix_len |-> Min(response.len, 200)]
Raises(cls) == [cls |-> cls, prefix_len |-> 0]

\* lines 250-294: the outcome of _generate_plan for a response: the stages
\* of decoding that ran, the exception raised (cls "None" for none) and
\* plan.steps
generate_from(response) ==
    LET stages == IF response.strict.kind # "invalid" THEN 1 ELSE 2
        plan_data == IF stages = 1 THEN response.strict ELSE response.embedded
        outcome(error, steps) ==
            [stages |-> stages, error |-> error, steps |-> steps]
    IN IF plan_data.kind \in {"nomatch", "invalid"}
         THEN outcome(MalformedPlan(response), << >>)
       ELSE IF plan_data.kind = "other"       \* plan_data.get: no such method
         THEN outcome(Raises("AttributeError"), << >>)
       ELSE IF plan_data.steps_kind = "null"  \* for ... in None
         THEN outcome(Raises("TypeError"), << >>)
       ELSE IF KeyErrorIn(plan_data.items)    \* step_data["..."]
         THEN outcome(Raises("KeyError"), << >>)
       ELSE outcome(Raises("None"), _generate_plan(plan_data.items))

DecodeCalls ==
    { [ op       |-> "decode",
        pc       |-> "called",
        response |-> response,
        stages   |-> 0,
        error    |-> Raises("None"),
        steps    |-> << >> ] : response \in Responses }

DecodeCall ==
    /\ fn.op = "decode"
    /\ fn.pc = "called"
    /\ LET r == generate_from(fn.response) IN
         fn' = [fn EXCEPT !.pc = IF r.error.cls = "None" THEN "returned"
                                                        ELSE "raised",
                          !.stages = r.stages,
                          !.error = r.error,
                          !.steps = r.steps]
    /\ UNCHANGED << jobVars, pl, reg, fin >>

InitDecode ==
    /\ InitJobs
    /\ pl = IdlePlanner
    /\ fn \in DecodeCalls
    /\ reg = NewRegistry
    /\ fin = NoFinalization

SpecDecode == InitDecode /\ [][DecodeCall]_vars

\* ------------------------------------------------ _generate_plan alone
GenerateCalls ==
    { [ op    |-> "_generate_plan",
        pc    |-> "called",
        args  |-> steps,       \* the list under "steps" in the response
        steps |-> << >> ]      \* plan.steps
      : steps \in Payloads }

\* lines 275-294
GenerateCall ==
    /\ fn.op = "_generate_plan"
    /\ fn.pc = "called"
    /\ fn' = IF KeyErrorIn(fn.args)
               THEN [fn EXCEPT !.pc = "raised"]
               ELSE [fn EXCEPT !.pc = "generated",
                               !.steps = _generate_plan(fn.args)]
    /\ UNCHANGED << jobVars, pl, reg, fin >>

InitGenerate ==
    /\ InitJobs
    /\ pl = IdlePlanner
    /\ fn \in GenerateCalls
    /\ reg = NewRegistry
    /\ fin = NoFinalization

SpecGenerate == InitGenerate /\ [][GenerateCall]_vars

\* ================================================================ claims
Created == 1..Len(jobs)
RunningJobs == { j \in Created : jobs[j].status = RUNNING }
Finished(j) == h[j].done

\* C1: with N workers at most N job records are RUNNING in every reachable
\* state, and every task still waiting in the pool's queue is PENDING.
C1_AtMostNRunning ==
    /\ Cardinality(RunningJobs) <= max_concurrent
    /\ \A i \in 1..Len(queue) : jobs[queue[i].job].status = PENDING

\* all N workers busy with RUNNING jobs while one more submission waits
C1_Witness ==
    /\ Cardinality(RunningJobs) = max_concurrent
    /\ queue # << >>

\* C3 as stated: a cancel requested after the body returned normally (the
\* signal being unset at that moment) leaves the final status COMPLETE.
C3_CancelAfterReturnIsComplete ==
    \A j \in Created :
        (/\ Finished(j) /\ h[j].end = "return" /\ ~h[j].sigAtEnd
         /\ h[j].reqAfterReturn) => jobs[j].status = COMPLETE

\* C3 amended: when the body returned normally and the runner's test of the
\* signal (line 108) found it unset, the final status is COMPLETE, also when
\* cancel sets the signal afterwards.
C3_CancelAfterCheckIsComplete ==
    \A j \in Created :
        (Finished(j) /\ h[j].end = "return" /\ h[j].checked /\ ~h[j].sigAtCheck)
            => jobs[j].status = COMPLETE

\* cancel returned True for a job whose execution had passed line 108 with
\* the signal unset, and the job ended COMPLETE
C3_Witness ==
    \E j \in Created :
        /\ Finished(j) /\ h[j].lateCancel /\ ~h[j].sigAtCheck
        /\ jobs[j].status = COMPLETE

\* C5: cancel fails with "not found" when the id is not in the store, fails
\* with "is not running" when the record's status is not RUNNING, and for a
\* RUNNING record sets the signal and returns True.
C5_CancelContract ==
    ret.op = "cancel" =>
        /\ ret.val = "not found" <=> ret.status = None
        /\ ret.val = "is not running" <=> ret.status \notin {None, RUNNING}
        /\ ret.val = "True" <=> ret.status = RUNNING

\* C6: a job whose signal was set when its body called on_log or returned
\* normally ends CANCELLED and its last log line is "Job cancelled by user".
C6_CancelledWhenSignalSeen ==
    \A j \in Created :
        (Finished(j) /\ h[j].sigAtEnd /\ h[j].end \in {"return", "abort"})
            => /\ jobs[j].status = CANCELLED
               /\ jobs[j].logs # << >>
               /\ jobs[j].logs[Len(jobs[j].logs)] = "Job cancelled by user"

\* a body that ran into the set signal, finalized
C6_Witness ==
    \E j \in Created :
        /\ Finished(j) /\ h[j].sigAtEnd /\ h[j].end \in {"return", "abort"}
        /\ jobs[j].status = CANCELLED

\* C7: finalization follows the way the body ended: return with the signal
\* unset at line 108 gives COMPLETE with the returned result, progress 1.0
\* and no current step; return with the signal set gives CANCELLED; a raised
\* exception gives FAILED with error str(e) and the log line "ERROR: " + str(e).
C7_FinalizationByOutcome ==
    \A j \in Created : Finished(j) =>
        /\ (h[j].end = "return" /\ ~h[j].sigAtCheck) =>
                /\ jobs[j].status = COMPLETE
                /\ jobs[j].result = h[j].val.args[1]
                /\ jobs[j].progress = 10
                /\ jobs[j].current_step = None
        /\ (h[j].end = "return" /\ h[j].sigAtCheck) =>
                jobs[j].status = CANCELLED
        /\ h[j].end = "raise" =>
                /\ jobs[j].status = FAILED
                /\ jobs[j].error = str(h[j].val)
                /\ \E i \in 1..Len(jobs[j].logs) :
                       jobs[j].logs[i] = "ERROR: " \o str(h[j].val)

\* a finalized job whose body returned with the signal unset at line 108
C7_Witness ==
    \E j \in Created :
        /\ Finished(j) /\ h[j].end = "return" /\ ~h[j].sigAtCheck
        /\ jobs[j].status = COMPLETE
        /\ jobs[j].progress = 10

\* C8 as stated: in every state a COMPLETE job has result set and error
\* unset, and a FAILED job has error set and result unset.
C8_ResultXorError ==
    \A j \in Created :
        /\ jobs[j].status = COMPLETE =>
               (jobs[j].result # None /\ jobs[j].error = None)
        /\ jobs[j].status = FAILED =>
               (jobs[j].error # None /\ jobs[j].result = None)

\* C9 as stated: in every state completed_at is unset while the job is
\* PENDING or RUNNING and set once its status is terminal, and a value once
\* written never changes.
C9_CompletedAtOnce ==
    /\ [](\A j \in Created :
            jobs[j].completed_at = NoTime <=> jobs[j].status \in {PENDING, RUNNING})
    /\ [][\A j \in Created :
            jobs[j].completed_at # NoTime =>
                jobs'[j].completed_at = jobs[j].completed_at]_vars

C2_AllJobsFinish ==
    \A j \in JobIds :
        (j \in Created /\ h[j].accepted)
            ~> (j \in Created /\ jobs[j].status \in Terminal)

\* N+1 accepted jobs, all of them terminal
C2_Witness ==
    /\ Cardinality({ j \in Created : h[j].accepted }) = max_concurrent + 1
    /\ \A j \in Created : jobs[j].status \in Terminal

\* C4 as stated: a terminal status never changes again, and a status only
\* moves PENDING -> RUNNING -> {COMPLETE, FAILED, CANCELLED}.
C4_SingleTerminalTransition ==
    [][ \A j \in Created :
          \/ jobs'[j].status = jobs[j].status
          \/ jobs[j].status = PENDING /\ jobs'[j].status = RUNNING
          \/ jobs[j].status = RUNNING /\ jobs'[j].status \in Terminal ]_vars

\* C11: once an execution of a job has left _execute_job, whichever of
\* COMPLETE, FAILED or CANCELLED it ended in, the job has a terminal status
\* and no entry in the runner's cancellation table.
C11_EntryRemovedAtFinalization ==
    \A j \in Created :
        Finished(j) => /\ jobs[j].status \in Terminal
                       /\ j \notin DOMAIN _cancellation_events

\* a job that was submitted, ended FAILED and has left the table
C11_Witness ==
    \E j \in Created :
        /\ Finished(j) /\ h[j].submits = 1
        /\ jobs[j].status = FAILED
        /\ j \notin DOMAIN _cancellation_events

\* C12 as stated: when shutdown has ended, every job that had an entry in the
\* cancellation table at the time of the call (submitted, not finalized) has
\* its signal set, unless its execution has been finalized in the meantime.
C12_ShutdownSignalsAll ==
    sd.pc \in {"done", "error"} =>
        \A j \in DOMAIN sd.outstanding :
            Finished(j) \/ is_set(sd.outstanding[j])

\* C13: progress is within [0, 1] (0..10 tenths) in every reachable state; a
\* step that changes it is either Job.complete writing 1.0 or a set_progress
\* call writing the supplied value clamped to [0, 1].
C13_ProgressInRange ==
    /\ [](\A j \in Created : jobs[j].progress \in 0..10)
    /\ [][\A j \in Created :
            jobs'[j].progress # jobs[j].progress =>
                \/ jobs'[j].status = COMPLETE /\ jobs'[j].progress = 10
                \/ \E a \in ProgressInputs :
                       jobs'[j].progress = IF a[1] < 0 THEN 0
                                           ELSE IF a[1] > 10 THEN 10 ELSE a[1]
       ]_vars

\* a running job whose body supplied 1.5 and whose progress reads 1.0
C13_Witness ==
    \E j \in Created :
        /\ jobs[j].status = RUNNING
        /\ jobs[j].progress = 10
        /\ jobs[j].current_step = "s1"

\* C14: every step leaves the previous log sequence of each job as a prefix
\* of its new log sequence: lines are appended, never removed or reordered.
C14_LogsAppendOnly ==
    [][\A j \in Created :
          /\ Len(jobs[j].logs) <= Len(jobs'[j].logs)
          /\ SubSeq(jobs'[j].logs, 1, Len(jobs[j].logs)) = jobs[j].logs]_vars

\* a finalized job with the start line, a line of its body and the end line
C14_Witness ==
    \E j \in Created :
        /\ Finished(j)
        /\ jobs[j].logs = << "Starting workflow: app", "step", "Workflow complete" >>

\* C15: a record in the store is the object create inserted, so get shows
\* the status, error and logs the runner writes; it leaves the store only in
\* a step of delete or of cleanup_old (which reports it as removed), never in
\* a step of the runner, whatever status the job ends in.
C15_RecordStaysUntilRemoved ==
    /\ [](\A j \in DOMAIN _jobs : _jobs[j] = j)
    /\ [][\A j \in DOMAIN _jobs :
            j \notin DOMAIN _jobs' =>
                /\ \/ calls'.api = calls.api + 1 /\ ret'.seq = ret.seq
                   \/ /\ ret'.seq # ret.seq
                      /\ ret'.op = "cleanup_old" /\ j \in ret'.removed
                /\ worker' = worker /\ jobs' = jobs
       ]_vars

\* a FAILED job, finalized, still in the store with its error and its logs
C15_Witness ==
    \E j \in DOMAIN _jobs :
        /\ Finished(j)
        /\ jobs[_jobs[j]].status = FAILED
        /\ jobs[_jobs[j]].error = "boom"
        /\ jobs[_jobs[j]].logs = << "Starting workflow: app", "ERROR: boom" >>

\* C16: an id enters the store only in a step of create (as the fresh id);
\* update for an id that is not in the store inserts nothing, so a job that
\* was deleted or cleaned up during its execution stays out of the store
\* while the runner carries the execution through to its end.
C16_UpdateNeverInserts ==
    /\ [][\A j \in DOMAIN _jobs' \ DOMAIN _jobs :
            Len(jobs') = Len(jobs) + 1 /\ j = Len(jobs')]_vars
    /\ [](\A j \in Created : h[j].absentAtUpdate => j \notin DOMAIN _jobs)

\* an execution that ended with its record gone from the store before the
\* update of line 124
C16_Witness ==
    \E j \in Created :
        /\ Finished(j)
        /\ h[j].absentAtUpdate
        /\ jobs[j].status \in Terminal
        /\ j \notin DOMAIN _jobs

\* what the claims about validation call a defect of a step
NotAllowed(step, allowed_tools) ==
    truthy(allowed_tools) /\ ~InList(step.tool_name, allowed_tools.items)
Defective(step, allowed_tools) ==
    \/ NotAllowed(step, allowed_tools)
    \/ ~InList(step.tool_name, _tools)
    \/ ~step.inputs.is_dict
    \/ step.output_variable = ""
Defects == { k \in 1..Len(pl.steps) : Defective(pl.steps[k], pl.allowed_tools) }
FirstDefect == CHOOSE k \in Defects : \A m \in Defects : k <= m
Validated == pl.pc \notin {"idle", "validate"}

\* C17: with a non-empty whitelist, a plan that has a step whose tool is not
\* in the whitelist is rejected by validation, registered or not; the error
\* carries the step_number of the first defective step, and it is the
\* whitelist error when that step's tool is outside the whitelist.
C17_WhitelistRejects ==
    (/\ Validated
     /\ truthy(pl.allowed_tools)
     /\ \E k \in 1..Len(pl.steps) : NotAllowed(pl.steps[k], pl.allowed_tools))
        => /\ pl.pc = "raised"
           /\ pl.error.cls = "ValueError"
           /\ pl.error.step_number = pl.steps[FirstDefect].step_number
           /\ NotAllowed(pl.steps[FirstDefect], pl.allowed_tools)
                  => pl.error.msg = "not in allowed tools"

\* a plan rejected for its second step, whose tool is registered and outside
\* the whitelist, the two steps not numbered by position
C17_Witness ==
    /\ pl.pc = "raised"
    /\ Len(pl.steps) = 2
    /\ InList(pl.steps[2].tool_name, _tools)
    /\ pl.error.msg = "not in allowed tools"
    /\ pl.steps[1].step_number = 2
    /\ pl.steps[2].step_number = 1
    /\ pl.error.step_number = 1

\* C18: validation rejects a plan with no steps; it rejects, with the
\* step_number of the first defective step and an error that names a defect
\* this step has, a plan in which a step's tool is not registered (also with
\* no whitelist), its inputs are not a map or its output_variable is empty;
\* it accepts a plan without any defect.
C18_ValidatePlan ==
    Validated =>
        /\ pl.steps = << >> =>
               /\ pl.pc = "raised"
               /\ pl.error = ValueError("Plan has no steps", 0)
        /\ Defects # {} =>
               /\ pl.pc = "raised"
               /\ pl.error.cls = "ValueError"
               /\ pl.error.step_number = pl.steps[FirstDefect].step_number
               /\ pl.error.msg = "not registered" =>
                      ~InList(pl.steps[FirstDefect].tool_name, _tools)
               /\ pl.error.msg = "inputs must be a dict" =>
                      ~pl.steps[FirstDefect].inputs.is_dict
               /\ pl.error.msg = "output_variable is required" =>
                      pl.steps[FirstDefect].output_variable = ""
               /\ pl.error.msg \in { "not in allowed tools", "not registered",
                      "inputs must be a dict", "output_variable is required" }
        /\ (pl.steps # << >> /\ Defects = {}) => pl.pc # "raised"

\* no whitelist, the second step names an unregistered tool: rejected with
\* that step's number
C18_Witness ==
    /\ pl.pc = "raised"
    /\ pl.allowed_tools.none
    /\ Len(pl.steps) = 2
    /\ pl.error = ValueError("not registered", pl.steps[2].step_number)
    /\ pl.steps[1].step_number # pl.steps[2].step_number

\* C19 as stated: when a whitelist is supplied, the empty one included, every
\* tool in the prompt's catalogue and every tool invoked is in the whitelist,
\* and a plan with a step outside the whitelist fails validation.
C19_WhitelistRestricts ==
    ~pl.allowed_tools.none =>
        /\ \A k \in 1..Len(pl.catalogue) :
               InList(pl.catalogue[k], pl.allowed_tools.items)
        /\ \A k \in 1..Len(pl.invoked) :
               InList(pl.invoked[k].tool, pl.allowed_tools.items)
        /\ (/\ Validated
            /\ \E k \in 1..Len(pl.steps) :
                   ~InList(pl.steps[k].tool_name, pl.allowed_tools.items))
               => pl.pc = "raised"

\* C20: a tool is invoked only for a plan that passes validation; when
\* validation fails the error is raised to the caller with the plan marked
\* failed, no tool invoked, every step still pending and the plan context
\* as it was copied from the caller's.
C20_ValidationFirst ==
    /\ pl.invoked # << >> => _validate_plan(pl.steps, pl.allowed_tools) = NoError
    /\ pl.pc = "raised" =>
           /\ pl.error.cls = "ValueError"
           /\ pl.status = "failed"
           /\ pl.invoked = << >>
           /\ pl.context = InitialContext
           /\ \A k \in 1..Len(pl.steps) : pl.steps[k].status = "pending"

\* a rejected plan whose first step was fit to run
C20_Witness ==
    /\ pl.pc = "raised"
    /\ Len(pl.steps) = 2
    /\ ~Defective(pl.steps[1], pl.allowed_tools)
    /\ pl.status = "failed"

\* a step whose inputs are a map that lacks a field its tool requires
OmitsRequired(step) ==
    /\ step.inputs.is_dict
    /\ ~(required(step.tool_name) \subseteq DOMAIN step.inputs.items)

\* C21 as stated: a plan with a step that omits a field its tool's schema
\* requires is rejected by validation: the error is raised to the caller and
\* no tool has been invoked.
C21_RequiredFieldValidated ==
    (Validated /\ \E k \in 1..Len(pl.steps) : OmitsRequired(pl.steps[k]))
        => pl.pc = "raised" /\ pl.invoked = << >>

\* C22 as stated: the steps of a plan with distinct step numbers are run in
\* ascending step_number order, whatever their order in the LLM's array: a
\* step that has been started has a larger number than every step before it.
C22_AscendingStepNumber ==
    (\A k, m \in 1..Len(pl.steps) :
         k # m => pl.steps[k].step_number # pl.steps[m].step_number)
        => \A k, m \in 1..Len(pl.steps) :
               (pl.steps[k].status # "pending" /\ pl.steps[m].status # "pending"
                /\ pl.steps[k].step_number < pl.steps[m].step_number)
                   => k < m /\ pl.steps[k].status # "running"

\* the context the k-th step of the list sees: the initial context with the
\* outputs of the steps before it, the later writer of a name winning
WritersBefore(k, name) ==
    { m \in 1..(k - 1) : pl.steps[m].output_variable = name }
ContextBefore(k) ==
    [ name \in DOMAIN InitialContext
                  \cup { pl.steps[m].output_variable : m \in 1..(k - 1) } |->
        IF WritersBefore(k, name) = {} THEN InitialContext[name]
        ELSE LET last == CHOOSE m \in WritersBefore(k, name) :
                             \A n \in WritersBefore(k, name) : n <= m
             IN outputs(pl.steps[last].tool_name) ]

\* C23: when a step has failed, it carries the error, the plan is failed and
\* the loop is over; the steps before it are completed and what they wrote
\* is in the context; the steps after it are pending with no result, and no
\* tool of a later step has been invoked.
C23_FirstFailureStops ==
    \A k \in 1..Len(pl.steps) :
        pl.steps[k].status = "failed" =>
            /\ pl.steps[k].error # None
            /\ pl.status = "failed"
            /\ pl.pc \in {"end", "returned"}
            /\ \A m \in 1..(k - 1) : pl.steps[m].status = "completed"
            /\ pl.context = ContextBefore(k)
            /\ \A m \in (k + 1)..Len(pl.steps) :
                   /\ pl.steps[m].status = "pending"
                   /\ pl.steps[m].result = None
            /\ Len(pl.invoked) \in {k - 1, k}
            /\ \A n \in 1..Len(pl.invoked) :
                   pl.invoked[n].tool = pl.steps[n].tool_name

\* execute returned a failed plan: the first step completed and its output
\* is in the context, the second failed in its tool
C23_Witness ==
    /\ pl.pc = "returned"
    /\ pl.status = "failed"
    /\ Len(pl.steps) = 2
    /\ pl.steps[1].status = "completed"
    /\ pl.steps[2].status = "failed"
    /\ Len(pl.invoked) = 2
    /\ pl.steps[1].output_variable = "page"
    /\ "page" \in DOMAIN pl.context
    /\ pl.context["page"] = outputs(pl.steps[1].tool_name)

AllSucceeded == pl.pc = "returned" /\ pl.status = "completed"

\* the k-th call of tool.execute was for the k-th step, with the step's
\* inputs in which each "$name" reference is replaced by the value the
\* context had under name at that moment
CalledResolved(k) ==
    /\ pl.invoked[k].tool = pl.steps[k].tool_name
    /\ DOMAIN pl.invoked[k].inputs = DOMAIN pl.steps[k].inputs.items
    /\ \A key \in DOMAIN pl.steps[k].inputs.items :
           LET value == pl.steps[k].inputs.items[key] IN
             IF startswith_dollar(value)
               THEN /\ var_name(value) \in DOMAIN ContextBefore(k)
                    /\ pl.invoked[k].inputs[key]
                           = ContextBefore(k)[var_name(value)]
               ELSE pl.invoked[k].inputs[key] = value

\* C24 as stated: after a run in which every tool call succeeded, each
\* step's tool was invoked exactly once with its resolved inputs, and the
\* final context maps each step's output_variable to that step's output.
C24_EachOutputInContext ==
    AllSucceeded =>
        /\ Len(pl.invoked) = Len(pl.steps)
        /\ \A k \in 1..Len(pl.steps) :
               /\ CalledResolved(k)
               /\ pl.context[pl.steps[k].output_variable]
                      = outputs(pl.steps[k].tool_name)

\* C24 amended: ... and the final context maps each step's output_variable
\* to the output of the last step that declares this name.
C24_LastOutputInContext ==
    AllSucceeded =>
        /\ Len(pl.invoked) = Len(pl.steps)
        /\ \A k \in 1..Len(pl.steps) : CalledResolved(k)
        /\ pl.context = ContextBefore(Len(pl.steps) + 1)

\* a completed two-step plan: the first call got the URL of the initial
\* context for "$url", the second got the first step's output for "$page"
C24_Witness ==
    /\ AllSucceeded
    /\ Len(pl.steps) = 2
    /\ \A k \in 1..2 : "url" \in DOMAIN pl.steps[k].inputs.items
    /\ pl.steps[1].inputs.items["url"] = Str("$url")
    /\ pl.invoked[1].inputs["url"] = Str("http://x")
    /\ pl.steps[2].inputs.items["url"] = Str("$page")
    /\ pl.invoked[2].inputs["url"] = outputs(pl.steps[1].tool_name)
    /\ pl.context["page"] = outputs(pl.steps[2].tool_name)

\* a top-level string that starts with "$"
IsReference(value) == value.type = "str" /\ value.v \in DollarStrings

\* C25: when _resolve_inputs returns, the result has the keys of the inputs,
\* a top-level "$name" string is replaced by the context's value for name,
\* and every other value, an array or object holding a "$" string included,
\* is the input's value; it raises "Variable ... not found" exactly when a
\* referenced name is not in the context; inputs and context are left as
\* they were.
C25_ResolveInputs ==
    (fn.op = "_resolve_inputs" /\ fn.pc # "called") =>
        LET inputs == fn.args.inputs.items
            context == fn.args.context
            refs == { k \in DOMAIN inputs : IsReference(inputs[k]) }
            missing == { k \in refs : var_name(inputs[k]) \notin DOMAIN context }
        IN /\ fn.inputs = fn.args.inputs
           /\ fn.context = fn.args.context
           /\ fn.pc = "raised" <=> missing # {}
           /\ fn.pc = "raised" =>
                  \E k \in missing :
                      fn.error = "Variable '" \o var_name(inputs[k])
                                     \o "' not found in context"
           /\ fn.pc = "returned" =>
                  /\ fn.result.is_dict
                  /\ DOMAIN fn.result.items = DOMAIN inputs
                  /\ \A k \in DOMAIN inputs :
                         fn.result.items[k] =
                             IF k \in refs THEN context[var_name(inputs[k])]
                             ELSE inputs[k]

\* a call that returned: "$page" was replaced by the number in the context
\* and the array holding "$page" was passed through
C25_Witness ==
    /\ fn.op = "_resolve_inputs"
    /\ fn.pc = "returned"
    /\ fn.args.inputs.keys = << "selector", "url" >>
    /\ fn.args.inputs.items["url"] = Str("$page")
    /\ fn.args.inputs.items["selector"] = Array("$page")
    /\ fn.result.items["url"] = Number("42")
    /\ fn.result.items["selector"] = Array("$page")

\* C26: a plan generated from a payload whose elements carry the five keys
\* has as many steps as the payload, in the same order, and each PlanStep
\* holds the payload's values of step_number, tool_name, description, inputs
\* and output_variable: the values a serialization of the plan reads.
C26_PlanKeepsPayload ==
    (fn.op = "_generate_plan" /\ fn.pc = "generated") =>
        /\ Len(fn.steps) = Len(fn.args)
        /\ \A i \in 1..Len(fn.args) :
               /\ fn.steps[i].step_number = fn.args[i].step_number
               /\ fn.steps[i].tool_name = fn.args[i].tool_name
               /\ fn.steps[i].description = fn.args[i].description
               /\ fn.steps[i].inputs = fn.args[i].inputs
               /\ fn.steps[i].output_variable = fn.args[i].output_variable

\* a generated plan of two steps whose payload listed step 2 before step 1,
\* with different descriptions, the first element carrying one more key
C26_Witness ==
    /\ fn.op = "_generate_plan"
    /\ fn.pc = "generated"
    /\ Len(fn.args) = 2
    /\ fn.args[1].step_number = 2
    /\ fn.args[2].step_number = 1
    /\ "note" \in DOMAIN fn.args[1]
    /\ fn.args[2].description = "fetch"
    /\ fn.steps[1].status = "pending"
    /\ fn.steps[2].description = "fetch"

\* C27 as stated: a call of a tool's execute never raises: for every input
\* map it returns a ToolResult, and a result with success = false carries
\* an error string.
C27_ExecuteNeverRaises ==
    (fn.op = "execute" /\ fn.pc # "called") =>
        /\ fn.pc = "returned"
        /\ fn.result.raised = None
        /\ ~fn.result.success => fn.result.error # None

\* the names a caller may ask for: built-in, registered, never registered
AskedNames == { "llm_generate", "scrape_url", "search_web", "my_tool",
                "fake_tool" }

\* C28: get_tool(name) is the tool of the last register call for that name
\* (the built-in one when no call named it), list_tools holds every
\* registered name exactly once, and get_tool of a name never registered
\* is None.
C28_LastRegistrationWins ==
    LET made == reg.registered
        madeFor(name) == { k \in 1..Len(made) : made[k].name = name }
        list == keys(reg._tools)
    IN /\ \A name \in AskedNames :
              get(reg._tools, name) =
                  IF madeFor(name) # {}
                    THEN made[CHOOSE k \in madeFor(name) :
                                   \A m \in madeFor(name) : m <= k]
                  ELSE IF InList(name, _tools) THEN Tool(name, 0)
                  ELSE Absent
       /\ \A i, j \in 1..Len(list) : list[i] = list[j] => i = j
       /\ \A name \in AskedNames :
              InList(name, list) <=> (madeFor(name) # {} \/ InList(name, _tools))

\* three register made: a new name twice, then a built-in name; the
\* second instance of the new name is the one kept
C28_Witness ==
    /\ reg.registered = << Tool("my_tool", 1), Tool("my_tool", 2),
                           Tool("scrape_url", 1) >>
    /\ get(reg._tools, "my_tool") = Tool("my_tool", 2)
    /\ get(reg._tools, "scrape_url") = Tool("scrape_url", 1)
    /\ keys(reg._tools) = << "llm_generate", "scrape_url", "image_generate",
                             "video_generate", "my_tool" >>
    /\ get(reg._tools, "fake_tool") = Absent

\* C29 as stated: whoever reads a record through JobStore.get never finds
\* status RUNNING with logs that lack the "Starting workflow" entry.
C29_RunningHasStartLog ==
    \A job_id \in DOMAIN _jobs :
        LET job == jobs[_jobs[job_id]] IN
          job.status = RUNNING =>
              \E k \in 1..Len(job.logs) :
                  job.logs[k] = "Starting workflow: " \o job.miniapp_id

\* the statements of a method, run one after the other, make the job that
\* the method's definition as one step makes
FinalizeMatchesCall ==
    (fin.pc # 0 /\ fin.pc > Len(statements(fin.method))) =>
        \E job \in { f.job : f \in Finalizations } :
            fin.job = CASE fin.method = "complete" -> complete(job, fin.arg, now)
                        [] fin.method = "fail" -> fail(job, fin.arg, now)
                        [] OTHER -> cancel(job, now)

\* C30 as stated: what a reader gets through JobStore.get is never a record
\* with a terminal status and no completed_at, nor a COMPLETE record without
\* its result or its progress of 1.0, nor a FAILED record without its error.
C30_NoPartialUpdate ==
    fin.pc # 0 =>
        /\ fin.seen.status \in Terminal => fin.seen.completed_at # NoTime
        /\ fin.seen.status = COMPLETE =>
               fin.seen.result # None /\ fin.seen.progress = 10
        /\ fin.seen.status = FAILED => fin.seen.error # None

\* C31: a call of on_log that finds the job's signal set at its test leaves
\* every job's log and the store as they were and takes the thread out of
\* the body into the handler of InterruptedError; a call that finds the
\* signal unset goes on to append its message, and that step appends the
\* message as one line to that job's log and to no other, returns to the
\* body, and the store holds the record under its id afterwards.
C31_LogCallback ==
    [][\A w \in Workers :
          LET j == worker[w].job IN
            /\ \A message \in LogMsgs :
                  on_log(w, message) =>
                      /\ \A k \in Created : jobs'[k].logs = jobs[k].logs
                      /\ _jobs' = _jobs
                      /\ IF is_set(worker[w].ev)
                           THEN worker'[w].pc = "l115"
                           ELSE /\ worker'[w].pc = "l101"
                                /\ worker'[w].val = Message(message)
            /\ (worker[w].pc = "l101" /\ worker'[w] # worker[w]) =>
                  /\ jobs'[j].logs
                         = Append(jobs[j].logs, worker[w].val.args[1])
                  /\ \A k \in Created \ {j} : jobs'[k] = jobs[k]
                  /\ worker'[w].pc = "body"
                  /\ j \in DOMAIN _jobs'
                  /\ _jobs'[j] = j]_vars

\* a body whose on_log call found the signal set: the log has the start line
\* only and the job was cancelled
C31_Witness ==
    \E j \in Created :
        /\ h[j].end = "abort"
        /\ Finished(j)
        /\ jobs[j].logs = << "Starting workflow: app", "Job cancelled by user" >>
        /\ jobs[j].status = CANCELLED

\* C32: a step of execute that completes a plan step sets
\* context[output_variable] to the tool's output map, whatever was stored
\* under that name, and leaves every other key of the context as it was.
C32_LastWriterWins ==
    [][\A k \in 1..Len(pl.steps) :
          (pl.steps[k].status = "running" /\ pl'.steps[k].status = "completed")
              => LET name == pl.steps[k].output_variable IN
                   /\ DOMAIN pl'.context = DOMAIN pl.context \cup {name}
                   /\ pl'.context[name] = outputs(pl.steps[k].tool_name)
                   /\ pl'.steps[k].result = outputs(pl.steps[k].tool_name)
                   /\ \A other \in DOMAIN pl.context \ {name} :
                          pl'.context[other] = pl.context[other]]_vars

\* two completed steps: the first wrote over "url" of the initial context,
\* the second wrote over the first one's value; nothing else is in the
\* context
C32_Witness ==
    /\ Len(pl.steps) = 2
    /\ pl.steps[1].status = "completed"
    /\ pl.steps[2].status = "completed"
    /\ pl.steps[1].output_variable = "url"
    /\ pl.steps[2].output_variable = "url"
    /\ pl.steps[1].tool_name = "llm_generate"
    /\ pl.steps[2].tool_name = "scrape_url"
    /\ pl.context = [name \in {"url"} |-> outputs("scrape_url")]

\* C33: the dict the caller passed as context is never changed by execute:
\* in every state, also after execute returned a completed or a failed plan
\* or raised, it holds the keys and values it held at the call.
C33_CallerContextUntouched == pl.caller = InitialContext

\* execute returned a plan whose context has a new value under "url", the
\* key of the caller's context, and one more key
C33_Witness ==
    /\ pl.pc = "returned"
    /\ DOMAIN pl.context = {"url", "page"}
    /\ pl.context["url"] = outputs("scrape_url")
    /\ pl.caller = InitialContext
    /\ ~pl.aliased

\* the references of step k that name no key of the context the step sees
\* when the steps before it have completed
UnresolvedIn(k) ==
    IF ~pl.steps[k].inputs.is_dict THEN {}
    ELSE { key \in DOMAIN pl.steps[k].inputs.items :
               /\ IsReference(pl.steps[k].inputs.items[key])
               /\ var_name(pl.steps[k].inputs.items[key])
                      \notin DOMAIN ContextBefore(k) }
NotFound(k) ==
    { "Variable '" \o var_name(pl.steps[k].inputs.items[key])
          \o "' not found in context" : key \in UnresolvedIn(k) }

\* C34: a reference to a variable that only a later step or no step produces
\* is no validation error (a plan that is raised by validation has a step
\* that is defective in another way, or no step); the first step k with such
\* a reference never completes and its tool is never invoked; once the steps
\* before k are completed and k has run, k is failed with the
\* variable-not-found error; no step before k fails with that error and no
\* step after k is ever started.
C34_UnresolvedAtResolution ==
    /\ pl.pc = "raised" =>
           \/ pl.steps = << >>
           \/ \E k \in 1..Len(pl.steps) : Defective(pl.steps[k], pl.allowed_tools)
    /\ \A k \in 1..Len(pl.steps) :
           (/\ Validated
            /\ UnresolvedIn(k) # {}
            /\ \A m \in 1..(k - 1) : UnresolvedIn(m) = {})
               => /\ pl.steps[k].status \in {"pending", "running", "failed"}
                  /\ pl.steps[k].status = "failed" =>
                         /\ pl.steps[k].error \in NotFound(k)
                         /\ Len(pl.invoked) = k - 1
                         /\ \A m \in 1..(k - 1) : pl.steps[m].status = "completed"
                  /\ \A m \in 1..(k - 1) :
                         pl.steps[m].status = "failed" =>
                             /\ pl.steps[k].status = "pending"
                             /\ \A name \in DollarStrings :
                                    pl.steps[m].error # "Variable '"
                                        \o var_name(Str(name))
                                        \o "' not found in context"
                  /\ (pl.pc \in {"end", "returned"}
                      /\ \A m \in 1..(k - 1) : pl.steps[m].status = "completed")
                         => pl.steps[k].status = "failed"
                  /\ \A m \in (k + 1)..Len(pl.steps) :
                         pl.steps[m].status = "pending"

\* a returned plan: step 1 completed, step 2 referred to "$page", which no
\* step produced, and failed at resolution; its tool was not invoked
C34_Witness ==
    /\ pl.pc = "returned"
    /\ Len(pl.steps) = 2
    /\ pl.steps[1].status = "completed"
    /\ pl.steps[1].output_variable = "url"
    /\ UnresolvedIn(2) = {"url"}
    /\ pl.steps[2].status = "failed"
    /\ pl.steps[2].error = "Variable 'page' not found in context"
    /\ Len(pl.invoked) = 1

\* C35: when execute has returned, the plan is completed exactly if every
\* step is completed; otherwise it is failed, one step is failed, the steps
\* before it are completed and the steps after it are pending. At every
\* moment at most one step is running.
C35_PlanStatus ==
    LET n == Len(pl.steps)
        are(status) == { k \in 1..n : pl.steps[k].status = status }
    IN /\ Cardinality(are("running")) <= 1
       /\ pl.pc = "returned" =>
              /\ pl.status = "completed" <=> are("completed") = 1..n
              /\ pl.status # "completed" =>
                     /\ pl.status = "failed"
                     /\ \E k \in 1..n :
                            /\ are("failed") = {k}
                            /\ are("completed") = 1..(k - 1)
                            /\ are("pending") = (k + 1)..n

\* a returned failed plan whose first step failed and whose second step
\* was never started
C35_Witness ==
    /\ pl.pc = "returned"
    /\ pl.status = "failed"
    /\ Len(pl.steps) = 2
    /\ pl.steps[1].status = "failed"
    /\ pl.steps[2].status = "pending"

\* C36 as stated: when the strict parse succeeds its result is used and no
\* recovery is attempted, otherwise the extraction is tried; if both fail
\* the error is the malformed-plan error with a prefix of at most 200
\* characters of the response; and _generate_plan either returns a plan or
\* raises that malformed-plan error, never another error.
C36_OnlyMalformedPlanError ==
    (fn.op = "decode" /\ fn.pc # "called") =>
        /\ fn.stages = IF fn.response.strict.kind # "invalid" THEN 1 ELSE 2
        /\ (/\ fn.response.strict.kind = "invalid"
            /\ fn.response.embedded.kind \in {"nomatch", "invalid"})
               => /\ fn.pc = "raised"
                  /\ fn.error = MalformedPlan(fn.response)
                  /\ fn.error.prefix_len <= 200
        /\ fn.pc = "raised" => fn.error = MalformedPlan(fn.response)

\* C37 as stated: validate_inputs returns invalid, with a message naming
\* the field, when a required field is missing or a supplied field's value
\* is not of the primitive type its schema declares (a boolean is not an
\* integer); it returns valid otherwise; fields without a declared or known
\* type are not checked.
JsonClasses(t) ==
    CASE t = "string"  -> {"str"}
      [] t = "integer" -> {"int"}
      [] t = "number"  -> {"int", "float"}
      [] t = "boolean" -> {"bool"}
      [] t = "array"   -> {"list"}
      [] t = "object"  -> {"dict"}
      [] OTHER         -> {}
MissingFields ==
    { fn.input_schema.required[i] : i \in DOMAIN fn.input_schema.required }
        \ fields_of(fn.inputs)
NotOfDeclaredType ==
    { fn.inputs[i].field : i \in
        { j \in DOMAIN fn.inputs :
            /\ fn.inputs[j].field \in DOMAIN fn.input_schema.properties
            /\ JsonClasses(fn.input_schema.properties[fn.inputs[j].field])
                   # {}
            /\ fn.inputs[j].value.type \notin
                   JsonClasses(fn.input_schema.properties[fn.inputs[j].field])
        } }
C37_ValidateInputs ==
    (fn.op = "validate_inputs" /\ fn.pc = "returned") =>
        IF MissingFields \cup NotOfDeclaredType = {}
          THEN fn.result = Valid
          ELSE /\ ~ fn.result.is_valid
               /\ \/ /\ fn.result.kind = "Missing required field"
                     /\ fn.result.field \in MissingFields
                  \/ /\ fn.result.kind = "Invalid type for"
                     /\ fn.result.field \in NotOfDeclaredType

\* C38 as stated: a job is CANCELLED only if its cancellation signal was
\* set (by cancel or by shutdown) before the runner finalized it: it was
\* set when the body ended or when line 108 tested it; a body that ends
\* with no cancellation request never gives a CANCELLED job.
C38_CancelledOnlyOnSignal ==
    \A j \in Created :
        jobs[j].status = CANCELLED => (h[j].sigAtEnd \/ h[j].sigAtCheck)

\* the records a cleanup_old step takes out of the store
Evicted == DOMAIN _jobs \ DOMAIN _jobs'
CleanupStep == ret'.seq # ret.seq /\ ret'.op = "cleanup_old"

C40_TableMatchesOutstanding ==
    /\ \A j \in DOMAIN _cancellation_events :
           \/ h[j].accepted /\ ~ h[j].done
           \/ \E call \in sub.flight : call.job_id = j
    /\ \A w \in Workers :
           (worker[w].pc # "idle" /\ jobs[worker[w].job].status = RUNNING
              /\ ~ h[worker[w].job].done)
               => worker[w].job \in DOMAIN _cancellation_events

====
